---- MODULE Spec2Model ----
(***************************************************************************)
(* A model of the SaxobankAutotrader trading engine:                       *)
(*   - RateLimiter and its two clients, the scanner worker and the order   *)
(*     executor (src/src/executor.py, src/src/scanner.py);                 *)
(*   - MarketDataManager, the streaming subscription manager               *)
(*     (src/src/market_data.py);                                           *)
(*   - TrendFollower and the profit guard of AccountManager                *)
(*     (src/src/strategy.py, src/src/account_info.py).                     *)
(* Time is a discrete clock `now` that every time.time() call reads.       *)
(***************************************************************************)
EXTENDS Integers, Sequences, FiniteSets, TLC

(***************************************************************************)
(* Bounds of the model.                                                    *)
(***************************************************************************)
\* the clock stops here
MaxTime == 3
\* the clock of the streaming manager's specifications stops here
MdMaxTime == 2
\* the calls of subscribe_to_ticker for one UIC
AddCalls == 2
\* TrendFollower.short_period and long_period (5 and 20 in the code), and the
\* maxlen of a price history (30 in the code)
ShortPeriod == 2
LongPeriod == 3
HistLen == 3
FloatBits == 13
\* TrendFollower.stop_loss_pct, in percent
StopLossPct == 1
\* RateLimiter(limit, window): the constructor's parameters, scaled down
Limit == 2
Window == 1
\* Retry-After when the 429 response carries no header (60 s in the code)
DefaultRetry == 2
\* prune_stream's age limit (3600 s in the code), in clock ticks
PruneAge == 1
\* the deque of call timestamps is not allowed to grow beyond this
MaxCalls == 3

\* the logical frames one binary WebSocket message carries at most
MaxFrames == 2

\* the buffer auth_manager.py 152 takes off the lifetime of an access token
\* (60 s), in clock steps
ExpiryBuffer == 1

VARIABLES
    now,             \* the wall clock, time.time()
    calls,           \* RateLimiter.calls: deque of call timestamps
    cooldown_until,  \* RateLimiter.cooldown_until
    cl,              \* the limiter's callers: where each one stands
    high_recorded,   \* history: a call admitted with priority high was recorded
    context_id,      \* MarketDataManager.context_id
    active_uics,     \* MarketDataManager.active_uics: a list
    uic_ref_map,     \* MarketDataManager.uic_ref_map: uic -> reference id
    subscription_start_times,  \* MarketDataManager.subscription_start_times
    live_market_state,         \* the UICs that have a quote in live_market_state
    conn,            \* the connection manager thread and its WebSocket
    wk,              \* the threads that call add, remove and prune
    hist,            \* history kept for the claims; no action reads it
    positions,       \* TrendFollower.positions: uic -> position
    price_history,   \* TrendFollower.price_history: uic -> deque of prices
    redis_client,    \* TrendFollower.redis_client is not None
    redis_store,     \* the keys saxotrader:position:<uic> of the Redis server
    call,            \* the last call of TrendFollower.update and what it returned
    scan,            \* one run of MarketScanner.perform_market_scan
    orch,            \* BotOrchestrator: its fields and where its tasks stand
    auth,            \* SaxoAuthManager: its tokens, and the stored credential
    ks,              \* one run of OrderExecutor.kill_switch in live mode
    callers,         \* the threads inside SaxoAuthManager.ensure_valid_token
    quotes           \* live_market_state: LastPrice and Updated of each quote

limVars == <<calls, cooldown_until, cl, high_recorded>>

ledger == <<active_uics, uic_ref_map, subscription_start_times, live_market_state>>

mdCore == <<context_id, ledger, conn, wk>>

mdVars == <<mdCore, hist>>

stratVars == <<positions, price_history, redis_client, redis_store, call>>

orchVars == <<scan, orch, auth, ks, callers, quotes>>

vars == <<now, limVars, mdVars, stratVars, orchVars>>

(***************************************************************************)
(* RateLimiter (executor.py 9-59)                                          *)
(***************************************************************************)
Priorities == {"high", "normal", "low", "urgent"}

\* _cleanup: pop from the left while the leftmost call is older than the window
RECURSIVE _cleanup(_, _)
_cleanup(cs, t) ==
    IF cs # <<>> /\ t - Head(cs) > Window
    THEN _cleanup(Tail(cs), t)
    ELSE cs

\* a mutant of limit_reached: the comparison made strict
limit_reached_strict(n) == n > Limit

\* can_proceed, line 48: the window is full
limit_reached(n) == n >= Limit

\* can_proceed, lines 41-44: the verdict while the hard cooldown is active
cooldown_verdict(priority) == priority = "high"

\* can_proceed(priority) at time t: the verdict and the deque it leaves
can_proceed(priority, t, cs, cd) ==
    IF t < cd
    THEN [ok |-> cooldown_verdict(priority), calls |-> cs]
    ELSE LET c2 == _cleanup(cs, t) IN
         IF limit_reached(Len(c2))
         THEN [ok |-> priority = "high", calls |-> c2]
         ELSE [ok |-> TRUE, calls |-> c2]

\* add_call at time t: append the timestamp, then _cleanup
add_call(cs, t) == _cleanup(Append(cs, t), t)

\* trigger_cooldown(seconds) at time t
trigger_cooldown(t, seconds) == t + seconds

(***************************************************************************)
(* The callers of the limiter.  "scanner" is perform_market_scan on a      *)
(* worker-pool thread, "executor" is OrderExecutor.place_order on the      *)
(* event-loop thread, "probe" is any other caller of can_proceed.          *)
(***************************************************************************)
Clients == {"scanner", "executor", "probe"}

\* the Retry-After header of a 429 response: absent, a number of seconds,
\* or an HTTP-date (RFC 9110 allows both forms)
RetryHeaders == {"absent", "1", "date"}

\* executor.py 124, scanner.py 152: int(headers.get("Retry-After", 60))
\* raises ValueError on a value that is not an integer literal
int_parses(header) == header # "date"

retry_after(header) == IF header = "absent" THEN DefaultRetry ELSE 1

Idle == [pc |-> "idle", priority |-> "normal"]

LimInit ==
    /\ calls = <<>>
    /\ cooldown_until = 0
    /\ cl = [c \in Clients |-> Idle]
    /\ high_recorded = FALSE

\* a mutant of Admit: a high-priority admit granted during the hard cooldown
\* ends the cooldown
Admit_ending_cooldown(c, priority) ==
    LET r == can_proceed(priority, now, calls, cooldown_until) IN
    /\ cl[c].pc = "idle"
    /\ calls' = r.calls
    /\ cl' = [cl EXCEPT ![c] = [pc |-> IF r.ok THEN "granted" ELSE "denied",
                                priority |-> priority]]
    /\ cooldown_until' = IF now < cooldown_until /\ priority = "high"
                         THEN now
                         ELSE cooldown_until
    /\ UNCHANGED high_recorded

\* the admission step of caller c with the given priority
Admit(c, priority) ==
    LET r == can_proceed(priority, now, calls, cooldown_until) IN
    /\ cl[c].pc = "idle"
    /\ calls' = r.calls
    /\ cl' = [cl EXCEPT ![c] = [pc |-> IF r.ok THEN "granted" ELSE "denied",
                                priority |-> priority]]
    /\ UNCHANGED <<cooldown_until, high_recorded>>

\* the record step of caller c
Record(c) ==
    /\ calls' = add_call(calls, now)
    /\ high_recorded' = (high_recorded \/ cl[c].priority = "high")

\* scanner.py 123: the rate limiter check of one batch
ScanAdmit ==
    /\ Admit("scanner", "low")
    /\ UNCHANGED now

\* scanner.py 124-126: the batch is skipped
ScanSkip ==
    /\ cl["scanner"].pc = "denied"
    /\ cl' = [cl EXCEPT !["scanner"].pc = "idle"]
    /\ UNCHANGED <<now, calls, cooldown_until, high_recorded>>

\* scanner.py 132-156: the batch request returns, or raises. On 429 the
\* header is parsed first (152): when int() raises, the handler of 155-156
\* logs, and neither cooldown nor break is reached
ScanResponse(outcome, header) ==
    /\ cl["scanner"].pc = "granted"
    /\ Len(calls) < MaxCalls
    /\ IF outcome = "exception"
       THEN UNCHANGED <<calls, high_recorded>>
       ELSE Record("scanner")
    /\ cooldown_until' = IF outcome = "429" /\ int_parses(header)
                         THEN trigger_cooldown(now, retry_after(header))
                         ELSE cooldown_until
    /\ cl' = [cl EXCEPT !["scanner"].pc = "idle"]
    /\ UNCHANGED now

\* place_order 79-84: the limiter is asked, high for a Sell, normal otherwise
Actions == {"Buy", "Sell"}

\* a mutant of priority_of: every order asks as normal
priority_of_normal(action) == "normal"

priority_of(action) == IF action = "Sell" THEN "high" ELSE "normal"

ExecAdmit(action) ==
    /\ Admit("executor", priority_of(action))
    /\ UNCHANGED now

\* place_order 83-84: the order is skipped
ExecDenied ==
    /\ cl["executor"].pc = "denied"
    /\ cl' = [cl EXCEPT !["executor"].pc = "idle"]
    /\ UNCHANGED <<now, calls, cooldown_until, high_recorded>>

\* place_order 86-112: account key, payload, and the dry run's record
ExecPrepare(account_key, payload_ok, dry_run) ==
    /\ cl["executor"].pc = "granted"
    /\ Len(calls) < MaxCalls
    /\   IF ~account_key \/ ~payload_ok
          THEN /\ cl' = [cl EXCEPT !["executor"].pc = "idle"]
               /\ UNCHANGED <<calls, cooldown_until, high_recorded>>
          ELSE IF dry_run
          THEN /\ Record("executor")
               /\ cl' = [cl EXCEPT !["executor"].pc = "idle"]
               /\ UNCHANGED cooldown_until
          ELSE /\ cl' = [cl EXCEPT !["executor"].pc = "posting"]
               /\ UNCHANGED <<calls, cooldown_until, high_recorded>>
    /\ UNCHANGED now

\* place_order 115-137: the order POST returns, or raises
PostOutcomes == {"200", "429", "other", "exception"}

ExecResponse(outcome, header) ==
    /\ cl["executor"].pc = "posting"
    /\ Len(calls) < MaxCalls
    /\ IF outcome = "exception"
       THEN UNCHANGED <<calls, high_recorded>>
       ELSE Record("executor")
    /\ cooldown_until' = IF outcome = "429" /\ int_parses(header)
                         THEN trigger_cooldown(now, retry_after(header))
                         ELSE cooldown_until
    /\ cl' = [cl EXCEPT !["executor"].pc = "idle"]
    /\ UNCHANGED now

\* what the broker holds for the account: open orders, and the amount of
\* the one position (0: none; below 0: short)
OpenOrders == {0, 1}
Amounts == {-10, 0, 10}

\* a mutant of cancel_deletes: the dry run is not looked at
cancel_deletes_ungated(dry_run, fetched, orders) ==
    IF fetched THEN orders ELSE 0

\* cancel_all_orders 139-168: the order-cancel DELETEs it sends, one for each
\* order of the list when the list could be fetched, none in a dry run
cancel_deletes(dry_run, fetched, orders) ==
    IF dry_run THEN 0
    ELSE IF fetched THEN orders ELSE 0

\* cancel_all_orders 139-168 touches neither the limiter nor the clock
cancel_all_orders(dry_run) ==
    /\ cl["executor"].pc = "idle"
    /\ UNCHANGED <<now, limVars>>

\* close_all_positions 179-218: nothing in a dry run; else the positions are
\* fetched and place_order is entered for the one with an amount, Sell for a
\* long one, Buy for a short one
closing(dry_run, fetched, amount) == ~dry_run /\ fetched /\ amount # 0

close_all_positions(dry_run, fetched, amount) ==
    /\ cl["executor"].pc = "idle"
    /\ IF closing(dry_run, fetched, amount)
       THEN ExecAdmit(IF amount > 0 THEN "Sell" ELSE "Buy")
       ELSE UNCHANGED <<now, limVars>>

\* kill_switch 221-225: cancel_all_orders, then close_all_positions
kill_switch(dry_run, fetched, amount) ==
    close_all_positions(dry_run, fetched, amount)

\* any other caller asks can_proceed with any priority string and goes away
Probe ==
    /\ \E priority \in Priorities : Admit("probe", priority)
    /\ UNCHANGED now

ProbeReturn ==
    /\ cl["probe"].pc # "idle"
    /\ cl' = [cl EXCEPT !["probe"].pc = "idle"]
    /\ UNCHANGED <<now, calls, cooldown_until, high_recorded>>

\* the clock advances
LimTick ==
    /\ now < MaxTime
    /\ now' = now + 1
    /\ UNCHANGED limVars

LimNext ==
    \/ ScanAdmit /\ UNCHANGED <<mdVars, stratVars, orchVars>>
    \/ ScanSkip /\ UNCHANGED <<mdVars, stratVars, orchVars>>
    \/ \E outcome \in PostOutcomes, header \in RetryHeaders :
          ScanResponse(outcome, header) /\ UNCHANGED <<mdVars, stratVars, orchVars>>
    \/ \E action \in Actions :
          ExecAdmit(action) /\ UNCHANGED <<mdVars, stratVars, orchVars>>
    \/ ExecDenied /\ UNCHANGED <<mdVars, stratVars, orchVars>>
    \/ \E account_key \in BOOLEAN, payload_ok \in BOOLEAN, dry_run \in BOOLEAN :
          ExecPrepare(account_key, payload_ok, dry_run)
          /\ UNCHANGED <<mdVars, stratVars, orchVars>>
    \/ \E outcome \in PostOutcomes, header \in RetryHeaders :
          ExecResponse(outcome, header) /\ UNCHANGED <<mdVars, stratVars, orchVars>>
    \/ Probe /\ UNCHANGED <<mdVars, stratVars, orchVars>>
    \/ ProbeReturn /\ UNCHANGED <<mdVars, stratVars, orchVars>>
    \/ LimTick /\ UNCHANGED <<mdVars, stratVars, orchVars>>

\* The executor with its mode fixed at construction (executor.py 62-64) and
\* what it did on record: the side of the order being placed, whether the
\* limiter denied it, the account key and payload of its second step, what
\* place_order returned, whether the payload was logged, and whether an order
\* POST or an order-cancel DELETE was ever sent.
ExecHist(dry_run) ==
    [dry_run |-> dry_run, action |-> "Buy", denied |-> FALSE,
     account_key |-> FALSE, payload_ok |-> FALSE, result |-> "none",
     logged |-> FALSE, posted |-> FALSE, deleted |-> FALSE]

Entered(action) ==
    [hist EXCEPT !.action = action, !.result = "none", !.logged = FALSE,
                 !.denied = cl'["executor"].pc = "denied"]

ExecRest == UNCHANGED <<mdCore, stratVars, orchVars>>

ExecNext ==
    \/ \E action \in Actions :
          ExecAdmit(action) /\ hist' = Entered(action) /\ ExecRest
    \/ ExecDenied /\ hist' = [hist EXCEPT !.result = "false"] /\ ExecRest
    \/ \E account_key \in BOOLEAN, payload_ok \in BOOLEAN :
          /\ ExecPrepare(account_key, payload_ok, hist.dry_run)
          /\ hist' = [hist EXCEPT
                 !.account_key = account_key,
                 !.payload_ok = payload_ok,
                 !.result = IF ~account_key \/ ~payload_ok THEN "false"
                            ELSE IF hist.dry_run THEN "true" ELSE "none",
                 !.logged = account_key /\ payload_ok /\ hist.dry_run,
                 !.posted = @ \/ cl'["executor"].pc = "posting"]
          /\ ExecRest
    \/ \E outcome \in PostOutcomes, header \in RetryHeaders :
          /\ ExecResponse(outcome, header)
          /\ hist' = [hist EXCEPT
                 !.result = IF outcome = "200" THEN "true" ELSE "false"]
          /\ ExecRest
    \/ \E fetched \in BOOLEAN, orders \in OpenOrders :
          /\ cancel_all_orders(hist.dry_run)
          /\ hist' = [hist EXCEPT
                 !.deleted = @ \/ cancel_deletes(hist.dry_run, fetched,
                                                 orders) > 0]
          /\ ExecRest
    \/ \E fetched \in BOOLEAN, amount \in Amounts :
          /\ close_all_positions(hist.dry_run, fetched, amount)
          /\ hist' = IF closing(hist.dry_run, fetched, amount)
                     THEN Entered(IF amount > 0 THEN "Sell" ELSE "Buy")
                     ELSE hist
          /\ ExecRest
    \/ \E fetched \in BOOLEAN, orders \in OpenOrders, amount \in Amounts :
          /\ kill_switch(hist.dry_run, fetched, amount)
          /\ hist' = [IF closing(hist.dry_run, fetched, amount)
                      THEN Entered(IF amount > 0 THEN "Sell" ELSE "Buy")
                      ELSE hist
                      EXCEPT !.deleted = @ \/ cancel_deletes(hist.dry_run,
                                                   fetched, orders) > 0]
          /\ ExecRest
    \/ ScanAdmit /\ UNCHANGED hist /\ ExecRest
    \/ ScanSkip /\ UNCHANGED hist /\ ExecRest
    \/ \E outcome \in PostOutcomes, header \in RetryHeaders :
          ScanResponse(outcome, header) /\ UNCHANGED hist /\ ExecRest
    \/ LimTick /\ UNCHANGED hist /\ ExecRest

(***************************************************************************)
(* MarketDataManager (market_data.py 66-335)                               *)
(*                                                                         *)
(* Every `with self._lock` block is one step.  A REST request is two       *)
(* steps, the one that sends it and the one that handles what came back.   *)
(***************************************************************************)
UICs == {10, 20}


NoTime == -1

\* reference ids: self.ref_id ("PriceSub_1") and self.ref_id + "_<uic>_<seconds>"
NoRef == [uic |-> -1, at |-> -1]
BaseRef == [uic |-> 0, at |-> -1]
SuffixRef(uic, t) == [uic |-> uic, at |-> t]

\* context ids: 'BotContext' of the constructor and "BotContext_<seconds>"
BotContext == -1
NewContext(t) == t

InList(u, s) == \E i \in 1..Len(s) : s[i] = u

Count(u, s) == Cardinality({i \in 1..Len(s) : s[i] = u})

\* list.remove(u): the first occurrence goes
RECURSIVE list_remove(_, _)
list_remove(s, u) ==
    IF s = <<>> THEN <<>>
    ELSE IF Head(s) = u THEN Tail(s)
    ELSE <<Head(s)>> \o list_remove(Tail(s), u)

\* the lists a caller passes to start_stream
StartLists == {<<>>, <<10>>, <<20>>, <<10, 20>>, <<20, 10>>}

\* the threads that call add, remove and prune (scanner and janitor workers)
Workers == {"w1", "w2"}

IdleWk == [pc |-> "idle", op |-> "none", uic |-> 0, ref |-> NoRef,
           safe |-> {}, to_remove |-> {}, todo |-> {}]

NoHist == [none |-> TRUE]

MdInit ==
    /\ context_id = BotContext
    /\ active_uics = <<>>
    /\ uic_ref_map = [u \in UICs |-> NoRef]
    /\ subscription_start_times = [u \in UICs |-> NoTime]
    /\ live_market_state = {}
    /\ conn = [pc |-> "off", wake |-> 0]
    /\ wk = [w \in Workers |-> IdleWk]

\* _subscribe_uics 186-191: the 201 branch maps every UIC of the list
confirmed_ref_map(uics, ref) ==
    [u \in UICs |-> IF InList(u, uics) THEN ref ELSE uic_ref_map[u]]

confirmed_start_times(uics, t) ==
    [u \in UICs |->
        IF InList(u, uics) /\ subscription_start_times[u] = NoTime
        THEN t
        ELSE subscription_start_times[u]]

\* _process_data_list: every item with a Uic and a price gets a quote
_process_data_list(data) == live_market_state \cup data

\* what a REST request comes back with: the status the handler takes for a
\* success (201 for the POST; 200, 202 or 204 for the DELETE), 403, any other
\* status, or an exception
RestOutcomes == {"ok", "403", "other", "exception"}

\* _subscribe_uics 180-204: what the response of the POST does to the ledger
SubscribeResponse(uics, ref, outcome, snapshot) ==
    IF outcome = "ok"
    THEN /\ uic_ref_map' = confirmed_ref_map(uics, ref)
         /\ subscription_start_times' = confirmed_start_times(uics, now)
         /\ live_market_state' = _process_data_list(snapshot)
         /\ UNCHANGED active_uics
    ELSE UNCHANGED ledger

\* start_stream 82-106
start_stream ==
    /\ conn.pc = "off"
    /\ \E uics \in StartLists, token \in BOOLEAN :
          /\ active_uics' = uics
          /\ conn' = [conn EXCEPT !.pc = IF token THEN "loop" ELSE "no_thread"]
    /\ UNCHANGED <<now, context_id, uic_ref_map, subscription_start_times,
                   live_market_state, wk>>

\* _connection_manager_loop 110-133, and 135-142 before it on a later round:
\* sleep 5 s, refresh the token, take a new context id, open the WebSocket
connection_manager_loop ==
    /\ \/ conn.pc = "loop"
       \/ conn.pc = "backoff" /\ now >= conn.wake
    /\ context_id' = NewContext(now)
    /\ conn' = [pc |-> "handshake", wake |-> 0]
    /\ UNCHANGED <<now, ledger, wk>>

\* run_forever returns without the connection having been opened
ws_connect_failed ==
    /\ conn.pc = "handshake"
    /\ conn' = [pc |-> "backoff", wake |-> now + 1]
    /\ UNCHANGED <<now, context_id, ledger, wk>>

\* _on_open 145-147 and _subscribe_uics 159-181: the batch POST is sent
_on_open ==
    /\ conn.pc = "handshake"
    /\ conn' = [conn EXCEPT !.pc = "open_post"]
    /\ UNCHANGED <<now, context_id, ledger, wk>>

\* _subscribe_uics 182-204 for the batch: uics is self.active_uics itself
\* (147), so the list is read again when the response is handled
on_open_response(outcome, snapshot) ==
    /\ conn.pc = "open_post"
    /\ SubscribeResponse(active_uics, BaseRef, outcome, snapshot)
    /\ conn' = [conn EXCEPT !.pc = "connected"]
    /\ UNCHANGED <<now, context_id, wk>>

\* _on_message 288-312: only frames tagged self.ref_id are processed
_on_message(ref, u) ==
    /\ conn.pc = "connected"
    /\ live_market_state' = IF ref = BaseRef
                            THEN _process_data_list({u})
                            ELSE live_market_state
    /\ UNCHANGED <<now, context_id, active_uics, uic_ref_map,
                   subscription_start_times, conn, wk>>

\* the connection drops: run_forever returns (133)
ws_closed ==
    /\ conn.pc = "connected"
    /\ conn' = [pc |-> "backoff", wake |-> now + 1]
    /\ UNCHANGED <<now, context_id, ledger, wk>>

\* subscribe_to_ticker 209
already_tracked(u) == InList(u, active_uics)

\* subscribe_to_ticker 208-214: the locked block
subscribe_to_ticker(w, u) ==
    /\ wk[w].pc = "idle"
    /\ IF already_tracked(u)
       THEN /\ wk' = [wk EXCEPT ![w] = IdleWk]
            /\ UNCHANGED ledger
       ELSE /\ active_uics' = Append(active_uics, u)
            /\ subscription_start_times' =
                   [subscription_start_times EXCEPT ![u] = now]
            /\ wk' = [wk EXCEPT ![w] = [IdleWk EXCEPT !.pc = "add_suffix",
                                                      !.op = "add", !.uic = u]]
            /\ UNCHANGED <<uic_ref_map, live_market_state>>
    /\ UNCHANGED <<now, context_id, conn>>

\* subscribe_to_ticker 217-218 and _subscribe_uics 159-181: the POST is sent
subscribe_post(w) ==
    /\ wk[w].pc = "add_suffix"
    /\ wk' = [wk EXCEPT ![w].pc = "add_post",
                        ![w].ref = SuffixRef(wk[w].uic, now)]
    /\ UNCHANGED <<now, context_id, ledger, conn>>

\* _subscribe_uics 182-204 for the single UIC
subscribe_response(w, outcome, snapshot) ==
    /\ wk[w].pc = "add_post"
    /\ snapshot \subseteq {wk[w].uic}
    /\ SubscribeResponse(<<wk[w].uic>>, wk[w].ref, outcome, snapshot)
    /\ wk' = [wk EXCEPT ![w] = IdleWk]
    /\ UNCHANGED <<now, context_id, conn>>

\* where unsubscribe_from_ticker returns to: prune_stream's loop, or the caller
back(r) == IF r.op = "prune"
           THEN [r EXCEPT !.pc = "prune_loop", !.ref = NoRef]
           ELSE IdleWk

\* unsubscribe_from_ticker 250-262: the locked block
unsubscribe_lock(w, u, rest) ==
    IF ~InList(u, active_uics)
    THEN /\ wk' = [wk EXCEPT ![w] = back(rest)]
         /\ UNCHANGED ledger
    ELSE IF uic_ref_map[u] = NoRef
    THEN /\ active_uics' = list_remove(active_uics, u)
         /\ live_market_state' = live_market_state \ {u}
         /\ subscription_start_times' =
                [subscription_start_times EXCEPT ![u] = NoTime]
         /\ wk' = [wk EXCEPT ![w] = back(rest)]
         /\ UNCHANGED uic_ref_map
    ELSE /\ wk' = [wk EXCEPT ![w] = [rest EXCEPT !.pc = "rem_delete",
                                                 !.ref = uic_ref_map[u]]]
         /\ UNCHANGED ledger

\* unsubscribe_from_ticker called by a client
unsubscribe_from_ticker(w, u) ==
    /\ wk[w].pc = "idle"
    /\ unsubscribe_lock(w, u, [IdleWk EXCEPT !.op = "remove", !.uic = u])
    /\ UNCHANGED <<now, context_id, conn>>

\* unsubscribe_from_ticker 272
delete_succeeded(outcome) == outcome = "ok"

\* unsubscribe_from_ticker 264-286: the DELETE returns, or raises
unsubscribe_response(w, outcome) ==
    /\ wk[w].pc = "rem_delete"
    /\ IF delete_succeeded(outcome)
       THEN /\ active_uics' = list_remove(active_uics, wk[w].uic)
            /\ uic_ref_map' = [uic_ref_map EXCEPT ![wk[w].uic] = NoRef]
            /\ live_market_state' = live_market_state \ {wk[w].uic}
            /\ subscription_start_times' =
                   [subscription_start_times EXCEPT ![wk[w].uic] = NoTime]
       ELSE UNCHANGED ledger
    /\ wk' = [wk EXCEPT ![w] = back(wk[w])]
    /\ UNCHANGED <<now, context_id, conn>>

\* a mutant of stale: the safe list is ignored
stale_unsafe(u, safe_uics, t) ==
    /\ subscription_start_times[u] # NoTime
    /\ t - subscription_start_times[u] > PruneAge

\* prune_stream 233-239: u goes on the to_remove list
stale(u, safe_uics, t) ==
    /\ subscription_start_times[u] # NoTime
    /\ u \notin safe_uics
    /\ t - subscription_start_times[u] > PruneAge

\* prune_stream 228-239: the locked block
prune_stream(w, safe_uics) ==
    /\ wk[w].pc = "idle"
    /\ LET to_remove == {u \in UICs : stale(u, safe_uics, now)} IN
       wk' = [wk EXCEPT ![w] = [IdleWk EXCEPT !.pc = "prune_loop",
                                              !.op = "prune",
                                              !.safe = safe_uics,
                                              !.to_remove = to_remove,
                                              !.todo = to_remove]]
    /\ UNCHANGED <<now, context_id, ledger, conn>>

\* prune_stream 243-244: the next UIC of to_remove is unsubscribed
prune_unsubscribe(w) ==
    /\ wk[w].pc = "prune_loop"
    /\ \E u \in wk[w].todo :
          unsubscribe_lock(w, u, [wk[w] EXCEPT !.uic = u,
                                               !.todo = wk[w].todo \ {u}])
    /\ UNCHANGED <<now, context_id, conn>>

\* prune_stream returns
prune_return(w) ==
    /\ wk[w].pc = "prune_loop"
    /\ wk[w].todo = {}
    /\ wk' = [wk EXCEPT ![w] = IdleWk]
    /\ UNCHANGED <<now, context_id, ledger, conn>>

\* the clock advances
MdTick ==
    /\ now < MdMaxTime
    /\ now' = now + 1
    /\ UNCHANGED <<context_id, ledger, conn, wk>>

\* the frames the broker may send: tagged with any reference id it was given
FrameRefs == {BaseRef} \cup {uic_ref_map[u] : u \in UICs}

\* what a step of the streaming manager leaves alone
MdRest == UNCHANGED <<hist, limVars, stratVars, orchVars>>

\* the streaming manager: its connection thread and one client thread, which
\* runs after start_stream as in BotOrchestrator.run
StreamNext ==
    \/ start_stream /\ MdRest
    \/ connection_manager_loop /\ MdRest
    \/ ws_connect_failed /\ MdRest
    \/ _on_open /\ MdRest
    \/ \E outcome \in RestOutcomes, snapshot \in SUBSET UICs :
          on_open_response(outcome, snapshot) /\ MdRest
    \/ \E ref \in FrameRefs, u \in UICs : _on_message(ref, u) /\ MdRest
    \/ ws_closed /\ MdRest
    \/ \E u \in UICs :
          conn.pc # "off" /\ subscribe_to_ticker("w1", u) /\ MdRest
    \/ subscribe_post("w1") /\ MdRest
    \/ \E outcome \in RestOutcomes, snapshot \in SUBSET UICs :
          subscribe_response("w1", outcome, snapshot) /\ MdRest
    \/ \E u \in UICs :
          conn.pc # "off" /\ unsubscribe_from_ticker("w1", u) /\ MdRest
    \/ \E outcome \in RestOutcomes : unsubscribe_response("w1", outcome) /\ MdRest
    \/ \E safe_uics \in SUBSET UICs :
          conn.pc # "off" /\ prune_stream("w1", safe_uics) /\ MdRest
    \/ prune_unsubscribe("w1") /\ MdRest
    \/ prune_return("w1") /\ MdRest
    \/ MdTick /\ MdRest

\* the streaming manager called by one client thread, one call after the other,
\* with the calls on record: cur is the call in progress, last and prev the two
\* calls that returned last, before the ledger when cur or last began, at the
\* time then
NoOp == [op |-> "none", uic |-> 0, dels |-> 0, enrolled |-> FALSE, safe |-> {}]

SeqHist == [cur |-> NoOp, last |-> NoOp, prev |-> NoOp,
            before |-> <<<<>>, [u \in UICs |-> NoRef],
                         [u \in UICs |-> NoTime], {}>>,
            at |-> 0]

Begun(h, o) == [h EXCEPT !.cur = o, !.before = ledger, !.at = now]

Returned(h) == [h EXCEPT !.prev = h.last, !.last = h.cur, !.cur = NoOp]

ReturnedIfIdle(h) == IF wk'["w1"].pc = "idle" THEN Returned(h) ELSE h

SeqRest == UNCHANGED <<conn, limVars, stratVars, orchVars>>

SeqNext ==
    \/ \E u \in UICs :
          /\ subscribe_to_ticker("w1", u)
          /\ hist' = ReturnedIfIdle(Begun(hist, [NoOp EXCEPT !.op = "add",
                                                             !.uic = u]))
          /\ SeqRest
    \/ subscribe_post("w1") /\ UNCHANGED hist /\ SeqRest
    \/ \E outcome \in RestOutcomes, snapshot \in SUBSET UICs :
          /\ subscribe_response("w1", outcome, snapshot)
          /\ hist' = Returned(hist)
          /\ SeqRest
    \/ \E u \in UICs :
          /\ unsubscribe_from_ticker("w1", u)
          /\ hist' = ReturnedIfIdle(Begun(hist,
                [NoOp EXCEPT !.op = "remove", !.uic = u,
                             !.dels = IF wk'["w1"].pc = "rem_delete"
                                      THEN 1 ELSE 0,
                             !.enrolled = /\ InList(u, active_uics)
                                          /\ uic_ref_map[u] # NoRef]))
          /\ SeqRest
    \/ \E outcome \in RestOutcomes :
          /\ unsubscribe_response("w1", outcome)
          /\ hist' = ReturnedIfIdle(hist)
          /\ SeqRest
    \/ \E safe_uics \in SUBSET UICs :
          /\ prune_stream("w1", safe_uics)
          /\ hist' = Begun(hist, [NoOp EXCEPT !.op = "prune",
                                              !.safe = safe_uics])
          /\ SeqRest
    \/ prune_unsubscribe("w1") /\ UNCHANGED hist /\ SeqRest
    \/ prune_return("w1") /\ hist' = Returned(hist) /\ SeqRest
    \/ MdTick /\ UNCHANGED hist /\ SeqRest

\* two client threads that call subscribe_to_ticker, at most AddCalls times for
\* a UIC, with the calls and the POSTs counted
AddHist == [calls |-> [u \in UICs |-> 0], posts |-> [u \in UICs |-> 0]]

AddNext ==
    \/ \E w \in Workers, u \in UICs :
          /\ hist.calls[u] < AddCalls
          /\ subscribe_to_ticker(w, u)
          /\ hist' = [hist EXCEPT !.calls[u] = @ + 1]
          /\ SeqRest
    \/ \E w \in Workers :
          /\ subscribe_post(w)
          /\ hist' = [hist EXCEPT !.posts[wk[w].uic] = @ + 1]
          /\ SeqRest
    \/ \E w \in Workers, outcome \in RestOutcomes, snapshot \in SUBSET UICs :
          subscribe_response(w, outcome, snapshot) /\ UNCHANGED hist /\ SeqRest
    \/ MdTick /\ UNCHANGED hist /\ SeqRest

\* the connection thread alone, with the context ids taken so far on record,
\* the active UICs and their reference ids at the last disconnect, the context
\* id each reference id of the ledger was confirmed under, the reference ids
\* the POSTs carried, and whether one of them was carried twice
ConnHist == [ctxs |-> {}, closed |-> FALSE, resub |-> FALSE,
             active_before |-> {}, refs_before |-> {},
             ref_ctx |-> [u \in UICs |-> BotContext],
             posted |-> {}, reposted |-> FALSE]

ConnRest == UNCHANGED <<wk, limVars, stratVars, orchVars>>

ReconnectNext ==
    \/ start_stream /\ UNCHANGED hist /\ ConnRest
    \/ /\ connection_manager_loop
       /\ hist' = [hist EXCEPT !.ctxs = @ \cup {context_id}]
       /\ ConnRest
    \/ ws_connect_failed /\ UNCHANGED hist /\ ConnRest
    \/ /\ _on_open
       /\ hist' = [hist EXCEPT !.posted = @ \cup {BaseRef},
                               !.reposted = @ \/ BaseRef \in hist.posted]
       /\ ConnRest
    \/ \E outcome \in RestOutcomes, snapshot \in SUBSET UICs :
          /\ on_open_response(outcome, snapshot)
          /\ hist' = [hist EXCEPT
                 !.resub = hist.closed /\ outcome = "ok",
                 !.ref_ctx = [u \in UICs |->
                                 IF outcome = "ok" /\ InList(u, active_uics)
                                 THEN context_id ELSE hist.ref_ctx[u]]]
          /\ ConnRest
    \/ \E ref \in FrameRefs, u \in UICs :
          _on_message(ref, u) /\ UNCHANGED hist /\ ConnRest
    \/ /\ ws_closed
       /\ hist' = [hist EXCEPT
              !.closed = TRUE, !.resub = FALSE,
              !.active_before = {u \in UICs : InList(u, active_uics)},
              !.refs_before = {uic_ref_map[u] : u \in UICs} \ {NoRef}]
       /\ ConnRest
    \/ MdTick /\ UNCHANGED hist /\ ConnRest

(***************************************************************************)
(* TrendFollower (strategy.py) and the profit guard of AccountManager      *)
(* (account_info.py 102-196).  Prices and commissions are whole numbers of *)
(* currency units; a net profit is kept as 20000 times its value, which    *)
(* makes the rates 0.90, 0.005 and 0.0005 whole numbers.                   *)
(***************************************************************************)
Prices == {99, 100, 198, 200}

\* the UICs that get ticks
Traded == {10}

\* what get_commissions returns: TotalCost of the broker, 0.0 on any failure
Commissions == {0, 867, 868}

\* a position dict; uic is the key 'uic' that _save_state adds (0: no such key)
NoPos == [entry_price |-> 0, quantity |-> 0, max_price |-> 0, uic |-> 0]

NoPositions == [u \in UICs |-> NoPos]

NoCall == [uic |-> 0, price |-> 0, commission |-> 0, signal |-> "None",
           tick |-> 0]

\* what the Redis server may hold when the process starts: for each key
\* saxotrader:position:<uic> the JSON object an earlier run wrote, NoPos for
\* no key
Stored == {NoPositions,
           [NoPositions EXCEPT ![10] = [entry_price |-> 100, quantity |-> 10,
                                        max_price |-> 200, uic |-> 10]]}

\* a mutant of _load_state: every position comes back with its peak at entry
_load_state_entry_peak(store) ==
    [u \in UICs |-> [store[u] EXCEPT !.max_price = store[u].entry_price]]

\* _load_state 49-59: every key that holds an object with a truthy 'uic' gives
\* positions[int(uic)] that object
_load_state(store) ==
    [u \in UICs |->
        IF \E k \in UICs : store[k] # NoPos /\ store[k].uic = u /\ u # 0
        THEN store[CHOOSE k \in UICs : store[k] # NoPos /\ store[k].uic = u]
        ELSE NoPos]

\* __init__ 11-41 and _load_state 43-61; loaded is false when redis raises
StratStart(client, stored, loaded) ==
    /\ redis_client = client
    /\ redis_store = stored
    /\ positions = IF client /\ loaded THEN _load_state(stored) ELSE NoPositions
    /\ price_history = [u \in UICs |-> <<>>]
    /\ call = NoCall

\* _save_state 69: with a client, the position dict itself gets the key 'uic'
tagged(pos, uic) == IF redis_client THEN [pos EXCEPT !.uic = uic] ELSE pos

\* a mutant of _save_state: nothing is written
_save_state_skipped(store, uic, pos, ok) == store

\* _save_state 63-75: ok is false when redis raises
_save_state(store, uic, pos, ok) ==
    IF redis_client /\ ok THEN [store EXCEPT ![uic] = tagged(pos, uic)] ELSE store

\* _delete_state 77-86
_delete_state(store, uic, ok) ==
    IF redis_client /\ ok THEN [store EXCEPT ![uic] = NoPos] ELSE store

\* deque(maxlen).append
deque_append_maxlen(d, x, maxlen) ==
    IF Len(d) < maxlen THEN Append(d, x) ELSE Append(Tail(d), x)

deque_append(d, x) == deque_append_maxlen(d, x, HistLen)

RECURSIVE Sum(_)
Sum(s) == IF s = <<>> THEN 0 ELSE Head(s) + Sum(Tail(s))

\* The EMA is computed in binary floating point, every operation rounded to
\* nearest, ties to even. A float is [m, e], worth m * 2^e, with m = 0 or
\* 2^(FloatBits-1) <= m < 2^FloatBits; the floats of the code have 53 bits.
RECURSIVE Pow2(_)
Pow2(n) == IF n = 0 THEN 1 ELSE 2 * Pow2(n - 1)

RECURSIVE BitLen(_)
BitLen(n) == IF n = 0 THEN 0 ELSE 1 + BitLen(n \div 2)

\* mantissas are below FlTop, and at least FlTop / 2 when not 0
FlTop == Pow2(FloatBits)

\* the float nearest to (n / d) * 2^s, for n >= 0 and d > 0
fl_round(n, d, s) ==
    IF n = 0 THEN [m |-> 0, e |-> 0]
    ELSE LET b == BitLen(n) - BitLen(d)
             num(t) == IF t >= 0 THEN n ELSE n * Pow2(0 - t)
             den(t) == IF t >= 0 THEN d * Pow2(t) ELSE d
             t == CHOOSE c \in {b - FloatBits, b - FloatBits + 1} :
                     /\ FlTop * den(c) <= 2 * num(c)
                     /\ num(c) < FlTop * den(c)
             q == num(t) \div den(t)
             r == num(t) % den(t)
             m == IF 2 * r > den(t) \/ (2 * r = den(t) /\ q % 2 = 1)
                  THEN q + 1 ELSE q
         IN  IF m = FlTop
             THEN [m |-> FlTop \div 2, e |-> s + t + 1]
             ELSE [m |-> m, e |-> s + t]

fl_int(i) == fl_round(i, 1, 0)

fl_mul(a, b) == fl_round(a.m * b.m, 1, a.e + b.e)

fl_div(a, b) == fl_round(a.m, b.m, a.e - b.e)

\* the mantissa of a on the exponent lo
fl_at(a, lo) == a.m * Pow2(a.e - lo)

fl_low(a, b) == IF a.e < b.e THEN a.e ELSE b.e

fl_add(a, b) ==
    IF a.m = 0 THEN b
    ELSE IF b.m = 0 THEN a
    ELSE fl_round(fl_at(a, fl_low(a, b)) + fl_at(b, fl_low(a, b)), 1,
                  fl_low(a, b))

\* a - b for a >= b
fl_sub(a, b) ==
    IF b.m = 0 THEN a
    ELSE fl_round(fl_at(a, fl_low(a, b)) - fl_at(b, fl_low(a, b)), 1,
                  fl_low(a, b))

fl_gt(a, b) == fl_at(a, fl_low(a, b)) > fl_at(b, fl_low(a, b))

\* _calculate_ema 176-180: k = 2 / (period + 1), then for each further price
\* ema = (price * k) + (ema * (1 - k))
\* (prices are positive, so no mantissa is below 0; the test settles the
\* running value before the next step)
RECURSIVE ema_fold(_, _, _)
ema_fold(ema, rest, k) ==
    IF rest = <<>> \/ ema.m < 0 THEN ema
    ELSE ema_fold(fl_add(fl_mul(fl_int(Head(rest)), k),
                         fl_mul(ema, fl_sub(fl_int(1), k))),
                  Tail(rest), k)

\* _calculate_ema 169-182; the sum of the first prices is below 2^FloatBits
\* and so exact
_calculate_ema(prices, period) ==
    IF prices = <<>> THEN fl_int(0)
    ELSE LET n == IF Len(prices) < period THEN Len(prices) ELSE period IN
         ema_fold(fl_round(Sum(SubSeq(prices, 1, n)), period, 0),
                  SubSeq(prices, n + 1, Len(prices)),
                  fl_round(2, period + 1, 0))

\* _check_entry_signal 110-113: short_ema > long_ema
crossover(history, short, long) ==
    fl_gt(_calculate_ema(history, short), _calculate_ema(history, long))

\* _check_entry_signal 108-113: enough prices, and the short EMA above
entry_signal(history, short, long) ==
    Len(history) >= long /\ crossover(history, short, long)

\* the currencies of the instruments (a USD instrument is all the strategy
\* and the audit ask about) and of the accounts
InstrumentCurrencies == {"USD"}
AccountCurrencies == {"USD", "EUR"}

\* a mutant of get_fx_rate: every pair at par
get_fx_rate_par(from_curr, to_curr) == 10

\* get_fx_rate 90-100, in tenths: 1.0 for one currency, 0.90 from USD to EUR
get_fx_rate(from_curr, to_curr) ==
    IF from_curr = to_curr THEN 10
    ELSE IF from_curr = "USD" /\ to_curr = "EUR" THEN 9
    ELSE 10

\* a mutant of calculate_net_profit: the costs are added to the gross profit
calculate_net_profit_costs_added(entry_price, exit_price, quantity, commission, instrument_currency, account_currency, include_slippage) ==
    LET fx_rate == get_fx_rate(instrument_currency, account_currency)
        gross_pnl_acct == 2000 * ((exit_price - entry_price) * quantity) * fx_rate
        fx_cost_acct == IF instrument_currency # account_currency
                        THEN 10 * ((entry_price * quantity + exit_price * quantity) * fx_rate)
                        ELSE 0
        slippage_cost_acct == IF include_slippage
                              THEN (exit_price * quantity) * fx_rate
                              ELSE 0
    IN  gross_pnl_acct + (commission + fx_cost_acct + slippage_cost_acct)

\* calculate_net_profit 102-152, times 20000 (fx_fee_pct 0.005, slippage_bps
\* 0.0005); commission is the answer of get_commissions, times 20000
calculate_net_profit(entry_price, exit_price, quantity, commission, instrument_currency, account_currency, include_slippage) ==
    LET fx_rate == get_fx_rate(instrument_currency, account_currency)
        gross_pnl_instr == (exit_price - entry_price) * quantity
        gross_pnl_acct == 2000 * gross_pnl_instr * fx_rate
        notional_entry == entry_price * quantity
        notional_exit == exit_price * quantity
        fx_cost_acct == IF instrument_currency # account_currency
                        THEN 10 * ((notional_entry + notional_exit) * fx_rate)
                        ELSE 0
        slippage_cost_acct == IF include_slippage
                              THEN (exit_price * quantity) * fx_rate
                              ELSE 0
        total_costs == commission + fx_cost_acct + slippage_cost_acct
    IN  gross_pnl_acct - total_costs

\* evaluate_trade 181-196: the account currency is the literal "EUR" (187),
\* the slippage buffer is on (193)
evaluate_trade(entry_price, current_price, quantity, commission, instrument_currency) ==
    calculate_net_profit(entry_price, current_price, quantity,
                         20000 * commission, instrument_currency, "EUR",
                         TRUE) > 0

\* a mutant of stop_hit: the comparison made strict
stop_hit_strict(current_price, max_price) ==
    100 * current_price < (100 - StopLossPct) * max_price

\* _check_exit_signal 143-145: current_price <= max_price * (1.0 - stop_loss_pct)
stop_hit(current_price, max_price) ==
    100 * current_price <= (100 - StopLossPct) * max_price

\* _check_entry_signal 102-127
_check_entry_signal(uic, current_price, quantity, history, ok) ==
    IF entry_signal(history, ShortPeriod, LongPeriod)
    THEN LET pos == [entry_price |-> current_price, quantity |-> quantity,
                     max_price |-> current_price, uic |-> 0] IN
         [positions |-> [positions EXCEPT ![uic] = tagged(pos, uic)],
          store |-> _save_state(redis_store, uic, pos, ok),
          commission |-> 0,
          signal |-> "BUY"]
    ELSE [positions |-> positions, store |-> redis_store, commission |-> 0,
          signal |-> "None"]

\* _check_exit_signal 129-167; ok: the Redis command of this call succeeds
_check_exit_signal(uic, current_price, commission, ok) ==
    LET position == positions[uic]
        raised == current_price > position.max_price
        peaked == IF raised
                  THEN tagged([position EXCEPT !.max_price = current_price],
                              uic)
                  ELSE position
        saved == IF raised
                 THEN _save_state(redis_store, uic, peaked, ok)
                 ELSE redis_store
    IN  IF stop_hit(current_price, peaked.max_price)
        THEN IF evaluate_trade(peaked.entry_price, current_price,
                               peaked.quantity, commission, "USD")
             THEN [positions |-> [positions EXCEPT ![uic] = NoPos],
                   store |-> _delete_state(saved, uic, ok),
                   commission |-> commission,
                   signal |-> "SELL"]
             ELSE [positions |-> [positions EXCEPT ![uic] = peaked],
                   store |-> saved, commission |-> commission,
                   signal |-> "None"]
        ELSE [positions |-> [positions EXCEPT ![uic] = peaked],
              store |-> saved, commission |-> 0, signal |-> "None"]

\* a mutant of update: the entry check is made whether or not a position is
\* open
update_always_entering(uic, current_price, quantity, commission, ok) ==
    LET history == deque_append(price_history[uic], current_price)
        r == _check_entry_signal(uic, current_price, quantity, history, ok)
    IN  /\ price_history' = [price_history EXCEPT ![uic] = history]
        /\ positions' = r.positions
        /\ redis_store' = r.store
        /\ call' = [uic |-> uic, price |-> current_price,
                    commission |-> r.commission, signal |-> r.signal,
                    tick |-> 1 - call.tick]
        /\ UNCHANGED redis_client

\* update 88-100
update(uic, current_price, quantity, commission, ok) ==
    LET history == deque_append(price_history[uic], current_price)
        r == IF positions[uic] # NoPos
             THEN _check_exit_signal(uic, current_price, commission, ok)
             ELSE _check_entry_signal(uic, current_price, quantity, history,
                                      ok)
    IN  /\ price_history' = [price_history EXCEPT ![uic] = history]
        /\ positions' = r.positions
        /\ redis_store' = r.store
        /\ call' = [uic |-> uic, price |-> current_price,
                    commission |-> r.commission, signal |-> r.signal,
                    tick |-> 1 - call.tick]
        /\ UNCHANGED redis_client

\* the process is started again: __init__ 31-37
restart(loaded) ==
    /\ positions' = IF redis_client /\ loaded
                    THEN _load_state(redis_store)
                    ELSE NoPositions
    /\ price_history' = [u \in UICs |-> <<>>]
    /\ call' = NoCall
    /\ UNCHANGED <<redis_client, redis_store>>

StratRest == UNCHANGED <<now, limVars, mdVars, orchVars>>

\* get_commissions answers only where _check_exit_signal asks it (154)
CommissionsAsked(uic, current_price) ==
    IF /\ positions[uic] # NoPos
       /\ current_price <= positions[uic].max_price
       /\ stop_hit(current_price, positions[uic].max_price)
    THEN Commissions
    ELSE {0}

\* a Redis command succeeds or raises; without a client none is sent (65, 79)
RedisOutcomes == IF redis_client THEN BOOLEAN ELSE {TRUE}

StrategyNext ==
    \/ \E uic \in Traded, current_price \in Prices :
       \E commission \in CommissionsAsked(uic, current_price),
          ok \in RedisOutcomes :
          update(uic, current_price, 10, commission, ok) /\ StratRest
    \/ \E loaded \in RedisOutcomes : restart(loaded) /\ StratRest

\* the audit of calculate_net_profit: prices in steps of 0.02 (5000 is 100.00,
\* 5002 is 100.04, 5025 is 100.50, 5100 is 102.00), amounts times 20000
AuditEntries == {5000}
AuditExits == {4950, 5000, 5002, 5025, 5100}
AuditQuantities == {10, 100}

\* MockAccountManager.get_commissions, tests/test_math_audit.py 26-30:
\* max(min_commission, price * quantity * 0.001) with min_commission 1.0,
\* asked with the average of entry and exit price (account_info.py 122-123)
mock_get_commissions(quantity, entry_price, exit_price) ==
    LET pct == 10 * (entry_price + exit_price) * quantity
        min_commission == 20000 * 50
    IN  IF pct > min_commission THEN pct ELSE min_commission

AuditCases ==
    [entry_price : AuditEntries, exit_price : AuditExits,
     quantity : AuditQuantities, mocked : BOOLEAN,
     instrument_currency : InstrumentCurrencies,
     account_currency : AccountCurrencies, include_slippage : BOOLEAN]

\* the commission of a case: the mock's, or the 0.0 that get_commissions
\* answers when the cost endpoint fails (account_info.py 58-60, 86-88)
commission_of(c) ==
    IF c.mocked
    THEN mock_get_commissions(c.quantity, c.entry_price, c.exit_price)
    ELSE 0

\* one call of calculate_net_profit on the case at hand
audit ==
    /\ ~hist.done
    /\ hist' = [hist EXCEPT
           !.net = calculate_net_profit(hist.args.entry_price,
                       hist.args.exit_price, hist.args.quantity,
                       commission_of(hist.args),
                       hist.args.instrument_currency,
                       hist.args.account_currency,
                       hist.args.include_slippage),
           !.done = TRUE]

AuditNext ==
    \/ audit /\ UNCHANGED <<now, limVars, mdCore, stratVars, orchVars>>

\* the profit guard on a thin gain: prices in steps of 0.50 (200 is 100.00,
\* 201 is 100.50, 204 is 102.00), commissions in the same steps; hist keeps
\* the position the call found
GuardPrices == {199, 200, 201, 204}
GuardCommissions == {0, 2}

GuardNext ==
    \/ \E uic \in Traded, current_price \in GuardPrices :
       \E commission \in IF CommissionsAsked(uic, current_price) = {0}
                          THEN {0} ELSE GuardCommissions :
          /\ update(uic, current_price, 10, commission, TRUE)
          /\ hist' = [held |-> positions[uic]]
          /\ UNCHANGED <<now, limVars, mdCore, orchVars>>

\* the entry signal with the periods and the history length of the code:
\* series of prices fed to update for one UIC of a strategy that is flat
short_period == 5
long_period == 20
history_maxlen == 30

Flat(price, n) == [i \in 1..n |-> price]

EntrySeries ==
    {Flat(price, 21) : price \in Prices}
    \cup {Flat(100, 20) \o <<101, 102>>, Flat(101, 20) \o <<100>>}

\* update 88-100 and _check_entry_signal 102-127 on the next price of the
\* series, while no position is held
feed ==
    /\ hist.position = NoPos
    /\ hist.fed < Len(hist.series)
    /\ LET current_price == hist.series[hist.fed + 1]
           history == deque_append_maxlen(hist.history, current_price,
                                          history_maxlen)
           buy == entry_signal(history, short_period, long_period)
       IN  hist' = [hist EXCEPT
               !.fed = @ + 1,
               !.history = history,
               !.signal = IF buy THEN "BUY" ELSE "None",
               !.position = IF buy
                            THEN [entry_price |-> current_price,
                                  quantity |-> 10,
                                  max_price |-> current_price, uic |-> 0]
                            ELSE NoPos]

EntryNext ==
    \/ feed /\ UNCHANGED <<now, limVars, mdCore, stratVars, orchVars>>

\* the strategy with its State Store on record: fed is the highest price passed
\* to update since the position of a UIC was entered (0: none), failed whether
\* a Redis command may have raised, loads flips when a restart rehydrates
PersistHist(client, loaded) ==
    [fed |-> [u \in UICs |-> 0], failed |-> client /\ ~loaded, loads |-> 0]

Fed(uic, current_price) ==
    IF positions'[uic] = NoPos THEN 0
    ELSE IF positions[uic] = NoPos \/ current_price > hist.fed[uic]
         THEN current_price
         ELSE hist.fed[uic]

PersistRest == UNCHANGED <<now, limVars, mdCore, orchVars>>

PersistNext ==
    \/ \E uic \in Traded, current_price \in Prices :
       \E commission \in CommissionsAsked(uic, current_price),
          ok \in RedisOutcomes :
          /\ update(uic, current_price, 10, commission, ok)
          /\ hist' = [hist EXCEPT !.fed[uic] = Fed(uic, current_price),
                                  !.failed = @ \/ ~ok]
          /\ PersistRest
    \/ \E loaded \in RedisOutcomes :
          /\ restart(loaded)
          /\ hist' = [hist EXCEPT
                 !.failed = @ \/ ~loaded,
                 !.loads = IF redis_client /\ loaded THEN 1 - @ ELSE @]
          /\ PersistRest

(***************************************************************************)
(* MarketScanner.perform_market_scan (scanner.py 103-161), its two         *)
(* callers, and the orchestrator's scanner task.  Prices are in tenths of  *)
(* a currency unit, percent changes in tenths of a percent.                *)
(***************************************************************************)
\* scanner.py 116: the universe is cut into batches of this many UICs
BatchSize == 1

\* scanner.py 7-13 and the start of a run: universe_uics, where the run
\* stands, the batch it is at, and the hot list it collects
NoScan == [universe |-> <<>>, pc |-> "idle", i |-> 0, hot |-> <<>>]

\* scanner.py 15-30: start() fetches the universe (the fallback list when
\* the fetch fails) before the loop thread runs
FetchedUniverse == <<10, 20>>

scanner_start ==
    /\ scan.pc = "idle"
    /\ scan.universe = <<>>
    /\ scan' = [scan EXCEPT !.universe = FetchedUniverse]

\* scanner.py 119: batches
NBatches(universe) == (Len(universe) + BatchSize - 1) \div BatchSize

batch(universe, i) ==
    SubSeq(universe, (i - 1) * BatchSize + 1,
           IF i * BatchSize < Len(universe) THEN i * BatchSize ELSE Len(universe))

\* the UICs of the batch the run is at
batch_uics ==
    IF scan.pc = "batches" /\ scan.i <= NBatches(scan.universe)
    THEN {batch(scan.universe, scan.i)[k] : k \in 1..Len(batch(scan.universe, scan.i))}
    ELSE {}

\* the Quote block of one item of an info-price response
ScanQuotes == [LastTraded : {9, 10, 200, 201}, PercentChange : {15, 16}]

\* scanner.py 163-185: 1.0 <= LastTraded <= 20.0 and PercentChange > 1.5
_analyze_hot_candidate(quote) ==
    /\ 10 <= quote.LastTraded /\ quote.LastTraded <= 200
    /\ quote.PercentChange > 15

\* scanner.py 138-148: the items of a 200 response that pass, in order
RECURSIVE hot_of(_, _)
hot_of(uics, data) ==
    IF uics = <<>> THEN <<>>
    ELSE (IF _analyze_hot_candidate(data[Head(uics)]) THEN <<Head(uics)>> ELSE <<>>)
         \o hot_of(Tail(uics), data)

\* scanner.py 103-121: a run begins, or returns [] at once on an empty
\* universe or without a token
perform_market_scan(token) ==
    /\ scan.pc = "idle"
    /\ scan' = IF scan.universe = <<>> \/ ~token
               THEN [scan EXCEPT !.pc = "returned", !.i = 0, !.hot = <<>>]
               ELSE [scan EXCEPT !.pc = "batches", !.i = 1, !.hot = <<>>]

\* scanner.py 121-123: the next batch asks the limiter
scan_batch ==
    /\ scan.pc = "batches"
    /\ scan.i <= NBatches(scan.universe)
    /\ ScanAdmit
    /\ UNCHANGED scan

\* scanner.py 124-126: denied, the batch is skipped
scan_skip ==
    /\ scan.pc = "batches"
    /\ ScanSkip
    /\ scan' = [scan EXCEPT !.i = @ + 1]

\* scanner.py 132-158: the response of the batch; a 429 whose header parses
\* breaks out of the loop, everything else goes on with the next batch
scan_response(outcome, header, data) ==
    /\ scan.pc = "batches"
    /\ ScanResponse(outcome, header)
    /\ scan' = IF outcome = "200"
               THEN [scan EXCEPT !.i = @ + 1,
                        !.hot = @ \o hot_of(batch(scan.universe, scan.i), data)]
               ELSE IF outcome = "429" /\ int_parses(header)
               THEN [scan EXCEPT !.i = NBatches(scan.universe) + 1]
               ELSE [scan EXCEPT !.i = @ + 1]

\* scanner.py 160-161: the loop is over, the hot list is returned
scan_end ==
    /\ scan.pc = "batches"
    /\ scan.i > NBatches(scan.universe)
    /\ cl["scanner"].pc = "idle"
    /\ scan' = [scan EXCEPT !.pc = "returned"]
    /\ UNCHANGED <<now, limVars>>

\* no run: nothing listed, nothing left to close
NoKill == [pc |-> "idle", todo |-> <<>>]

\* live_market_state before any quote
NoQuote == [LastPrice |-> 0, Updated |-> NoTime]

NoQuotes == [u \in UICs |-> NoQuote]

\* the key saxotrader:active_universe of the Redis server: not set, or the
\* lists of the last publication
NoView == [set |-> FALSE, watched |-> <<>>, owned |-> {}]

\* sync_active_universe 68-75: what a publication would write
View == [set |-> TRUE, watched |-> active_uics, owned |-> {u \in UICs : positions[u] # NoPos}]

\* BotOrchestrator.__init__ 31-61: running, the Redis client (51-58), the
\* tick markers (61); then where run() stands, the steps shutdown() has
\* reached, and the Redis key of the universe view
NoOrch ==
    [running |-> TRUE, redis |-> FALSE, last_processed_time |-> [u \in UICs |-> NoTime],
     pc |-> "init", tasks |-> "none", reached |-> <<>>, universe_key |-> NoView]

\* sync_active_universe 63-79: without Redis it returns at 64-65.  With
\* Redis, line 69 reads strategy.active_positions; TrendFollower has no such
\* attribute (its dict is positions, strategy.py 31), the AttributeError is
\* caught at 78-79 and the set of line 75 is not reached: the key stays
sync_active_universe(key) == key

\* main.py 81-104: the orchestrator's scanner task once the scan has
\* returned: the hot list is dropped (88-93 keep no reference to it), the
\* universe view is published, the task sleeps
task_scanner_after ==
    /\ scan.pc = "returned"
    /\ scan' = [scan EXCEPT !.pc = "idle"]
    /\ orch' = [orch EXCEPT !.universe_key = sync_active_universe(@)]
    /\ UNCHANGED <<now, limVars, mdCore>>

\* scanner.py 85-101: the scanner's own loop thread once the scan has
\* returned: md.add_subscription does not exist on MarketDataManager, the
\* AttributeError of the first hot item ends the iteration (98-99)
_scan_loop_after ==
    /\ scan.pc = "returned"
    /\ scan' = [scan EXCEPT !.pc = "idle"]
    /\ UNCHANGED <<now, limVars, mdCore>>

(***************************************************************************)
(* The scan, the executor's live place_order and the clock: the history    *)
(* keeps the last response, whether the run met a 429 or a denial, and the *)
(* hot list its caller was handed.                                         *)
(***************************************************************************)
NoLast == [who |-> "none", outcome |-> "none", header |-> "absent", result |-> "none"]

ScanHist == [last |-> NoLast, clean |-> TRUE, done |-> FALSE, hot |-> <<>>]

Quiet == [hist EXCEPT !.last = NoLast]

Handed == [hist EXCEPT !.last = NoLast, !.done = TRUE, !.hot = scan.hot]

ScanRest == UNCHANGED <<mdCore, stratVars, orch, auth, ks, callers, quotes>>

ScanNext ==
    \/ scanner_start /\ hist' = Quiet /\ UNCHANGED <<now, limVars>> /\ ScanRest
    \/ \E token \in BOOLEAN :
          /\ perform_market_scan(token)
          /\ hist' = ScanHist
          /\ UNCHANGED <<now, limVars>> /\ ScanRest
    \/ /\ scan_batch
       /\ hist' = [Quiet EXCEPT !.clean = @ /\ cl'["scanner"].pc # "denied"]
       /\ ScanRest
    \/ scan_skip /\ hist' = Quiet /\ ScanRest
    \/ \E outcome \in PostOutcomes, header \in RetryHeaders :
       \E data \in [batch_uics -> ScanQuotes] :
          /\ scan_response(outcome, header, data)
          /\ hist' = [hist EXCEPT
                 !.last = [who |-> "scanner", outcome |-> outcome,
                           header |-> header, result |-> "none"],
                 !.clean = @ /\ outcome # "429"]
          /\ ScanRest
    \/ scan_end /\ hist' = Quiet /\ ScanRest
    \/ task_scanner_after /\ hist' = Handed /\ UNCHANGED <<stratVars, auth, ks, callers, quotes>>
    \/ _scan_loop_after /\ hist' = Handed /\ UNCHANGED <<stratVars, orch, auth, ks, callers, quotes>>
    \/ \E action \in Actions :
          ExecAdmit(action) /\ hist' = Quiet /\ UNCHANGED scan /\ ScanRest
    \/ /\ ExecDenied
       /\ hist' = [hist EXCEPT !.last = [NoLast EXCEPT !.who = "executor", !.result = "false"]]
       /\ UNCHANGED scan /\ ScanRest
    \/ \E account_key \in BOOLEAN :
          /\ ExecPrepare(account_key, TRUE, FALSE)
          /\ hist' = [hist EXCEPT !.last = [NoLast EXCEPT !.who = "executor",
                        !.result = IF account_key THEN "none" ELSE "false"]]
          /\ UNCHANGED scan /\ ScanRest
    \/ \E outcome \in PostOutcomes, header \in RetryHeaders :
          /\ ExecResponse(outcome, header)
          /\ hist' = [hist EXCEPT
                 !.last = [who |-> "executor", outcome |-> outcome, header |-> header,
                           result |-> IF outcome = "200" THEN "true" ELSE "false"]]
          /\ UNCHANGED scan /\ ScanRest
    \/ LimTick /\ hist' = Quiet /\ UNCHANGED scan /\ ScanRest

(***************************************************************************)
(* OrderExecutor.kill_switch in live mode (executor.py 139-225): the       *)
(* positions the broker listed are closed one after the other, each by a   *)
(* place_order call that goes through the limiter.                         *)
(***************************************************************************)
\* what GET /port/v1/positions lists for the account: the amounts of two
\* positions
Listings == [1..2 -> Amounts]

\* the position the loop of 197-215 is at is done with
closed_one == [ks EXCEPT !.todo = Tail(@)]

\* kill_switch 221-225 up to the loop of close_all_positions: the orders
\* are cancelled (139-177, every failure caught), the positions are listed;
\* a failed listing ends the run (217-218)
kill_switch_live(listed, amounts) ==
    /\ ks.pc = "idle"
    /\ cl["executor"].pc = "idle"
    /\ ks' = IF listed THEN [pc |-> "closing", todo |-> amounts]
             ELSE [pc |-> "done", todo |-> <<>>]
    /\ UNCHANGED <<now, limVars>>

\* close_all_positions 197-204: a position without amount is passed over
close_skip ==
    /\ ks.pc = "closing" /\ ks.todo # <<>>
    /\ cl["executor"].pc = "idle"
    /\ Head(ks.todo) = 0
    /\ ks' = closed_one
    /\ UNCHANGED <<now, limVars>>

\* close_all_positions 206-213: place_order is entered, Sell for a long
\* position, Buy for a short one
close_place ==
    /\ ks.pc = "closing" /\ ks.todo # <<>>
    /\ Head(ks.todo) # 0
    /\ ExecAdmit(IF Head(ks.todo) > 0 THEN "Sell" ELSE "Buy")
    /\ UNCHANGED ks

\* place_order 82-84 returns False, the loop goes on
close_denied ==
    /\ ks.pc = "closing"
    /\ ExecDenied
    /\ ks' = closed_one

\* place_order 86-112 in live mode: without account key it returns False
close_prepare(account_key) ==
    /\ ks.pc = "closing"
    /\ ExecPrepare(account_key, TRUE, FALSE)
    /\ ks' = IF account_key THEN ks ELSE closed_one

\* place_order 115-137: the POST is answered, the loop goes on
close_response(outcome, header) ==
    /\ ks.pc = "closing"
    /\ ExecResponse(outcome, header)
    /\ ks' = closed_one

\* close_all_positions returns
close_end ==
    /\ ks.pc = "closing" /\ ks.todo = <<>>
    /\ ks' = [ks EXCEPT !.pc = "done"]
    /\ UNCHANGED <<now, limVars>>

\* the history of a run: the listing, the positions (by index) an order POST
\* was sent for, and whether an account key was missing
KillHist == [listed |-> <<>>, posted |-> {}, keyless |-> FALSE]

at_position == Len(hist.listed) - Len(ks.todo) + 1

KillRest == UNCHANGED <<mdCore, stratVars, scan, orch, auth, callers, quotes>>

KillNext ==
    \/ \E listed \in BOOLEAN, amounts \in Listings :
          /\ kill_switch_live(listed, amounts)
          /\ hist' = [KillHist EXCEPT !.listed = IF listed THEN amounts ELSE <<>>]
          /\ KillRest
    \/ close_skip /\ UNCHANGED hist /\ KillRest
    \/ close_place /\ UNCHANGED hist /\ KillRest
    \/ close_denied /\ UNCHANGED hist /\ KillRest
    \/ \E account_key \in BOOLEAN :
          /\ close_prepare(account_key)
          /\ hist' = [hist EXCEPT
                 !.posted = IF account_key THEN @ \cup {at_position} ELSE @,
                 !.keyless = @ \/ ~account_key]
          /\ KillRest
    \/ \E outcome \in PostOutcomes, header \in RetryHeaders :
          close_response(outcome, header) /\ UNCHANGED hist /\ KillRest
    \/ close_end /\ UNCHANGED hist /\ KillRest
    \/ ScanAdmit /\ UNCHANGED <<hist, ks>> /\ KillRest
    \/ ScanSkip /\ UNCHANGED <<hist, ks>> /\ KillRest
    \/ \E outcome \in PostOutcomes, header \in RetryHeaders :
          ScanResponse(outcome, header) /\ UNCHANGED <<hist, ks>> /\ KillRest
    \/ LimTick /\ UNCHANGED <<hist, ks>> /\ KillRest

(***************************************************************************)
(* The streaming manager called by one client thread that adds candidates  *)
(* and prunes, with a 403 on record: limited says that a subscribe POST    *)
(* was answered with 403 (or a body with SubscriptionLimitExceeded,        *)
(* market_data.py 201) and that prune_stream has not been entered since.   *)
(***************************************************************************)
BackoffHist == [limited |-> FALSE]

BackoffNext ==
    \/ \E u \in UICs : subscribe_to_ticker("w1", u) /\ UNCHANGED hist /\ SeqRest
    \/ subscribe_post("w1") /\ UNCHANGED hist /\ SeqRest
    \/ \E outcome \in RestOutcomes, snapshot \in SUBSET UICs :
          /\ subscribe_response("w1", outcome, snapshot)
          /\ hist' = [hist EXCEPT !.limited = @ \/ outcome = "403"]
          /\ SeqRest
    \/ \E safe_uics \in SUBSET UICs :
          /\ prune_stream("w1", safe_uics)
          /\ hist' = [hist EXCEPT !.limited = FALSE]
          /\ SeqRest
    \/ prune_unsubscribe("w1") /\ UNCHANGED hist /\ SeqRest
    \/ \E outcome \in RestOutcomes :
          unsubscribe_response("w1", outcome) /\ UNCHANGED hist /\ SeqRest
    \/ prune_return("w1") /\ UNCHANGED hist /\ SeqRest
    \/ MdTick /\ UNCHANGED hist /\ SeqRest

(***************************************************************************)
(* SaxoAuthManager (auth_manager.py 16-177).  Access tokens and refresh    *)
(* credentials are numbers, 0 is None.  store is the key                   *)
(* saxotrader:refresh_token of the Redis server, env the variable          *)
(* REFRESH_TOKEN of the process.                                           *)
(***************************************************************************)
Credentials == {1, 2}
AccessTokens == {1, 2}

\* the lifetimes the broker grants (expires_in), longer than the buffer
ExpiresIn == {ExpiryBuffer + 1, ExpiryBuffer + 2}

\* _load_refresh_token 42-62: Redis first, the environment when Redis is not
\* there, fails or holds nothing
_load_refresh_token(a, read_ok) ==
    IF a.redis_client /\ read_ok /\ a.store # 0 THEN a.store ELSE a.env

\* __init__ 16-40
AuthStart(client, store, env) ==
    LET a == [access_token |-> 0, token_expiry |-> NoTime, refresh_token |-> 0,
              redis_client |-> client, store |-> store, env |-> env] IN
    [a EXCEPT !.refresh_token = _load_refresh_token(a, TRUE)]

NoAuth == AuthStart(FALSE, 0, 0)

\* the threads that call ensure_valid_token on the one manager: the event
\* loop (main.py 142), a worker-pool thread (scanner.py, market_data.py 265)
\* and the WebSocket thread (market_data.py 139, 159)
Threads == {"loop", "worker", "ws"}

NoCallers == [th \in Threads |-> [pc |-> "idle", credential |-> 0]]

\* a mutant of token_expiry_of: the buffer is not taken off
token_expiry_of_unbuffered(t, expires_in) == t + expires_in

\* _request_token 151-152: now + expires_in - 60
token_expiry_of(t, expires_in) == t + expires_in - ExpiryBuffer

\* ensure_valid_token 165
needs_refresh(a, t) ==
    a.access_token = 0 \/ (a.token_expiry # NoTime /\ t >= a.token_expiry)

\* ensure_valid_token 168-172: the credential after the re-read
reread(a, read_ok) ==
    LET current_stored == _load_refresh_token(a, read_ok) IN
    IF current_stored # 0 /\ current_stored # a.refresh_token
    THEN current_stored ELSE a.refresh_token

\* refresh_access_token 105-117: a request is sent only with a credential
sends_request(a, t, read_ok) == needs_refresh(a, t) /\ reread(a, read_ok) # 0

\* _save_refresh_token 64-82: memory, Redis (a failure is logged), environment
_save_refresh_token(a, token, save_ok) ==
    [a EXCEPT !.refresh_token = token,
              !.store = IF a.redis_client /\ save_ok THEN token ELSE @,
              !.env = token]

\* what the token endpoint answers: a status below 400 with the token data,
\* a status from 400 on, or no answer at all
TokenOutcomes == {"ok", "error", "exception"}

\* _request_token 119-161
_request_token(a, t, outcome, token_data, save_ok) ==
    IF outcome # "ok" THEN a
    ELSE [_save_refresh_token(a, token_data.refresh_token, save_ok) EXCEPT
             !.access_token = token_data.access_token,
             !.token_expiry = token_expiry_of(t, token_data.expires_in)]

TokenData == [access_token : AccessTokens, refresh_token : Credentials, expires_in : ExpiresIn]

\* the broker issues a new access token and rotates the credential it was sent
Issued(a, read_ok) ==
    {d \in TokenData : d.access_token # a.access_token /\ d.refresh_token # reread(a, read_ok)}

\* ensure_valid_token 163-177: the manager after the call
ensure_valid_token(a, t, read_ok, outcome, token_data, save_ok) ==
    IF ~needs_refresh(a, t) THEN a
    ELSE LET b == [a EXCEPT !.refresh_token = reread(a, read_ok)] IN
         IF b.refresh_token = 0 THEN b
         ELSE _request_token(b, t, outcome, token_data, save_ok)

\* ensure_valid_token 163-177: what the call returns, 0 for None
returned_token(a, t, read_ok, outcome, token_data) ==
    IF ~needs_refresh(a, t) THEN a.access_token
    ELSE IF reread(a, read_ok) = 0 \/ outcome # "ok" THEN 0
    ELSE token_data.access_token

\* another worker has refreshed and left its rotated credential in Redis
peer_rotates(c) ==
    /\ auth.store # c
    /\ auth' = [auth EXCEPT !.store = c]

\* the calls of ensure_valid_token, one after the other, with the last call
\* on record: the manager before it, its inputs, what it returned, and when
\* the access token it then held really expires
AuthHist ==
    [called |-> FALSE, before |-> NoAuth, read_ok |-> TRUE, outcome |-> "ok",
     token_data |-> [access_token |-> 1, refresh_token |-> 1, expires_in |-> ExpiryBuffer + 1],
     save_ok |-> TRUE, result |-> 0, expires_at |-> NoTime,
     due |-> FALSE, requested |-> FALSE]

\* the record of the last call is dropped, the expiry is kept
Forgotten == [AuthHist EXCEPT !.expires_at = hist.expires_at]

AuthRest == UNCHANGED <<limVars, mdCore, stratVars, scan, orch, ks, callers, quotes>>

AuthNext ==
    \/ \E read_ok \in BOOLEAN, outcome \in TokenOutcomes, save_ok \in BOOLEAN :
       \E token_data \in Issued(auth, read_ok) :
          /\ auth' = ensure_valid_token(auth, now, read_ok, outcome, token_data, save_ok)
          /\ hist' = [called |-> TRUE, before |-> auth, read_ok |-> read_ok,
                      outcome |-> outcome, token_data |-> token_data,
                      save_ok |-> save_ok,
                      due |-> \/ auth.access_token = 0
                              \/ /\ hist.expires_at # NoTime
                                 /\ now >= hist.expires_at - ExpiryBuffer,
                      requested |-> sends_request(auth, now, read_ok),
                      result |-> returned_token(auth, now, read_ok, outcome, token_data),
                      expires_at |-> IF sends_request(auth, now, read_ok) /\ outcome = "ok"
                                     THEN now + token_data.expires_in
                                     ELSE hist.expires_at]
          /\ UNCHANGED now /\ AuthRest
    \/ \E c \in Credentials :
          /\ peer_rotates(c)
          /\ hist' = Forgotten
          /\ UNCHANGED now /\ AuthRest
    \/ LimTick /\ hist' = Forgotten /\ UNCHANGED auth /\ AuthRest

(***************************************************************************)
(* BotOrchestrator (main.py 31-249): run(), its periodic tasks and          *)
(* shutdown().  The tasks run on one event loop, a task step between two   *)
(* awaits is one step.  The scanner is never started by main.py, so the    *)
(* universe of its scans is empty.                                         *)
(***************************************************************************)
QuotePrices == {100, 200}

\* run 223-240: the stream is started with the configured UICs, the signal
\* handlers are registered, the four tasks are created
run ==
    /\ orch.pc = "init"
    /\ start_stream
    /\ orch' = [orch EXCEPT !.pc = "serving", !.tasks = "running"]

\* _on_message 288-312 and _process_data_list 314-330 on the WebSocket
\* thread: a quote of an active UIC arrives and is stored with the time of
\* arrival
price_update(u, price) ==
    /\ conn.pc = "connected"
    /\ InList(u, active_uics)
    /\ live_market_state' = _process_data_list({u})
    /\ quotes' = [quotes EXCEPT ![u] = [LastPrice |-> price, Updated |-> now]]
    /\ UNCHANGED <<now, context_id, active_uics, uic_ref_map, subscription_start_times, conn, wk>>

\* task_stream_processor 144-156: the active UICs whose quote is not the one
\* processed last
due_uics ==
    {u \in UICs : /\ InList(u, active_uics) /\ u \in live_market_state
                  /\ quotes[u].LastPrice # 0
                  /\ quotes[u].Updated # orch.last_processed_time[u]}

\* the tasks run while self.running, until run() cancels them
serving == orch.pc = "serving" /\ orch.tasks = "running" /\ orch.running

\* task_stream_processor 136-191, one round of the loop: the token is looked
\* after; for the first due UIC line 157 reads strategy.active_positions and
\* raises AttributeError before strategy.update (160) and before the marker
\* (185); the handler of 189-191 logs and sleeps.  Without a due UIC the
\* round does nothing either
task_stream_processor(read_ok, outcome, token_data, save_ok) ==
    /\ serving
    /\ auth' = ensure_valid_token(auth, now, read_ok, outcome, token_data, save_ok)
    /\ UNCHANGED <<orch, stratVars, quotes, mdCore>>

\* task_scanner 81-104, one round: the scan (empty universe: [] at once,
\* scanner.py 108-110), then the publication
task_scanner(token) ==
    /\ serving
    /\ scan.pc = "idle" /\ scan.universe = <<>>
    /\ orch' = [orch EXCEPT !.universe_key = sync_active_universe(@)]
    /\ UNCHANGED <<scan, mdCore, stratVars, quotes, auth>>

\* task_janitor 106-129, one round: line 117 reads strategy.active_positions
\* inside the try, the AttributeError is caught at 125-126; prune_stream (120)
\* and the publication (123) are not reached
task_janitor ==
    /\ serving
    /\ UNCHANGED <<orch, mdCore, stratVars, quotes, auth>>

\* task_reporting 194-199
task_reporting ==
    /\ serving
    /\ UNCHANGED <<orch, mdCore, stratVars, quotes, auth>>

\* shutdown 201-221, started by the signal handler of 231-233: running is
\* set False (204); the loop header of 210 reads strategy.active_positions
\* and raises AttributeError, which ends the task: _save_state (211),
\* redis.close (214-215) and ws.close (218-219) are not reached
shutdown ==
    /\ orch.pc = "serving"
    /\ orch.running
    /\ orch' = [orch EXCEPT !.running = FALSE, !.reached = Append(@, "running")]
    /\ UNCHANGED <<mdCore, stratVars, quotes, auth>>

\* run 243-249: the keep-alive loop sees running False, the four tasks are
\* cancelled, run() returns
run_return ==
    /\ orch.pc = "serving"
    /\ ~orch.running
    /\ orch' = [orch EXCEPT !.pc = "returned", !.tasks = "cancelled",
                            !.reached = Append(@, "cancel")]
    /\ UNCHANGED <<mdCore, stratVars, quotes, auth>>

\* the reads and writes of the subscription ledger and of the quote map that
\* a step of the orchestrator's threads performs, each with the field, the
\* line, and whether the line is inside a `with self._lock` block
Access(field, mode, line, locked) == [field |-> field, mode |-> mode, line |-> line, locked |-> locked]

accesses(step) ==
    CASE step = "run" ->
            \* start_stream 84: self.active_uics = list(uics)
            {Access("active_uics", "write", "market_data.py 84", FALSE)}
      [] step = "open" ->
            \* _on_open 147 passes self.active_uics, _subscribe_uics 159-166 reads it
            {Access("active_uics", "read", "market_data.py 147", FALSE)}
      [] step = "opened" ->
            \* _subscribe_uics 186-191
            {Access("uic_ref_map", "write", "market_data.py 188", TRUE),
             Access("subscription_start_times", "write", "market_data.py 191", TRUE)}
      [] step = "quote" ->
            \* _process_data_list 319-329
            {Access("live_market_state", "write", "market_data.py 326", TRUE)}
      [] step = "stream" ->
            \* task_stream_processor 144, 147
            {Access("active_uics", "read", "main.py 144", FALSE),
             Access("live_market_state", "read", "main.py 147", FALSE)}
      [] step = "scanner" ->
            \* sync_active_universe 68, with a Redis client
            IF orch.redis THEN {Access("active_uics", "read", "main.py 68", FALSE)} ELSE {}
      [] OTHER -> {}

\* the history names the step taken last
OrchHist == [step |-> "none"]

Step(name) == hist' = [step |-> name]

OrchRest == UNCHANGED <<limVars, scan, ks, callers>>

OrchNext ==
    \/ run /\ Step("run") /\ UNCHANGED <<stratVars, quotes, auth>> /\ OrchRest
    \/ connection_manager_loop /\ Step("connect") /\ UNCHANGED <<stratVars, orch, auth, quotes>> /\ OrchRest
    \/ _on_open /\ Step("open") /\ UNCHANGED <<stratVars, orch, auth, quotes>> /\ OrchRest
    \/ \E outcome \in RestOutcomes :
          on_open_response(outcome, {}) /\ Step("opened") /\ UNCHANGED <<stratVars, orch, auth, quotes>> /\ OrchRest
    \/ \E u \in UICs, price \in QuotePrices :
          price_update(u, price) /\ Step("quote") /\ UNCHANGED <<stratVars, orch, auth>> /\ OrchRest
    \/ \E read_ok \in BOOLEAN, outcome \in TokenOutcomes, save_ok \in BOOLEAN :
       \E token_data \in Issued(auth, read_ok) :
          /\ task_stream_processor(read_ok, outcome, token_data, save_ok)
          /\ Step("stream") /\ UNCHANGED now /\ OrchRest
    \/ \E token \in BOOLEAN :
          task_scanner(token) /\ Step("scanner") /\ UNCHANGED now /\ OrchRest
    \/ task_janitor /\ Step("janitor") /\ UNCHANGED now /\ OrchRest
    \/ task_reporting /\ Step("reporting") /\ UNCHANGED now /\ OrchRest
    \/ shutdown /\ Step("shutdown") /\ UNCHANGED now /\ OrchRest
    \/ run_return /\ Step("return") /\ UNCHANGED now /\ OrchRest
    \/ MdTick /\ Step("tick") /\ UNCHANGED <<stratVars, orch, auth, quotes>> /\ OrchRest

(***************************************************************************)
(* The binary frames of the WebSocket (market_data.py 12-64, 288-312).  A  *)
(* message is a sequence of cells: message id, reserved, length of the     *)
(* reference id, the reference id, payload format, payload size, payload.  *)
(* A payload cell is the UIC of one quote item.                            *)
(***************************************************************************)
\* self.ref_id on the wire, and the reference id of a single-UIC subscription
WireBase == <<7>>
WireRefs == {WireBase, <<7, 10>>}

Payloads == {<<10>>, <<20>>, <<10, 20>>}

Frames == [ref : WireRefs, payload : Payloads]

\* the layout of the docstring of decode_saxo_message, 13-23
encode(f) == <<0, 0, Len(f.ref)>> \o f.ref \o <<0, Len(f.payload)>> \o f.payload

RECURSIVE concat(_)
concat(fs) == IF fs = <<>> THEN <<>> ELSE encode(Head(fs)) \o concat(Tail(fs))

\* what the broker may put into one message
FrameLists == UNION {[1..n -> Frames] : n \in 1..MaxFrames}

\* decode_saxo_message 12-64: one header, one payload; what follows the
\* payload in the buffer is not looked at
decode_saxo_message(message) ==
    LET ref_id_len == message[3]
        payload_size == message[5 + ref_id_len]
    IN [msgId |-> message[1],
        refId |-> SubSeq(message, 4, 3 + ref_id_len),
        payload |-> SubSeq(message, 6 + ref_id_len, 5 + ref_id_len + payload_size)]

\* _on_message 288-312 on a binary message
_on_message_binary(message) ==
    LET decoded == decode_saxo_message(message) IN
    /\ conn.pc = "connected"
    /\ live_market_state' =
          IF decoded.refId = WireBase
          THEN _process_data_list({decoded.payload[k] : k \in 1..Len(decoded.payload)})
          ELSE live_market_state
    /\ UNCHANGED <<now, context_id, active_uics, uic_ref_map, subscription_start_times, conn, wk>>

\* the history keeps the frames of the message handled last
DecodeHist == [frames |-> <<>>]

DecodeNext ==
    \/ start_stream /\ UNCHANGED hist /\ ConnRest
    \/ connection_manager_loop /\ UNCHANGED hist /\ ConnRest
    \/ _on_open /\ UNCHANGED hist /\ ConnRest
    \/ \E outcome \in RestOutcomes :
          on_open_response(outcome, {}) /\ UNCHANGED hist /\ ConnRest
    \/ \E frames \in FrameLists :
          /\ _on_message_binary(concat(frames))
          /\ hist' = [frames |-> frames]
          /\ ConnRest

\* BotOrchestrator.__init__ 31-61, SaxoAuthManager.__init__ 16-40
OrchInit ==
    /\ scan = NoScan
    /\ orch = NoOrch
    /\ auth = NoAuth
    /\ ks = NoKill
    /\ callers = NoCallers
    /\ quotes = NoQuotes

(***************************************************************************)
(* Claims about the rate limiter, checked under SpecLimiter.               *)
(***************************************************************************)
\* the calls of the deque whose timestamp lies in (t - Window, t]
InWindow(t) == {i \in 1..Len(calls) : calls[i] > t - Window /\ calls[i] <= t}

\* caller c takes its admission step
AdmitStep(c) == cl[c].pc = "idle" /\ cl'[c].pc \in {"granted", "denied"}

\* the policy of the specification, section 4.B, on the state before the call:
\* the calls that are not older than t - Window are counted as a set
RefCount(cs, t) == Cardinality({i \in 1..Len(cs) : ~(cs[i] < t - Window)})

RefPolicy(priority, t, cs, cd) ==
    IF t < cd
    THEN priority = "high"
    ELSE IF RefCount(cs, t) >= Limit
         THEN priority = "high"
         ELSE TRUE

\* C3: as long as every recorded call was admitted with priority normal or
\* low, the number of recorded calls with a timestamp in (now - W, now] is at
\* most the limit, whatever the interleaving of scanner and executor.
C3_WindowBound ==
    ~high_recorded => Cardinality(InWindow(now)) <= Limit

C5_NeverPastCooldown ==
    [][\A c \in Clients :
          AdmitStep(c) =>
              /\ (now < cooldown_until => cl'[c].pc = "denied")
              /\ (now >= cooldown_until /\ cl'[c].priority = "high"
                     => cl'[c].pc = "granted")]_vars

(***************************************************************************)
(* Claims about the streaming manager.                                     *)
(***************************************************************************)
\* C2: no step of a running prune_stream(S) takes a UIC of S out of the active
\* list, the reference map or the start-time map, whatever the ages and
\* whatever the DELETEs return.
C2_PruneKeepsSafe ==
    [][\A u \in UICs :
          (wk["w1"].op = "prune" /\ wk'["w1"] # wk["w1"] /\ u \in wk["w1"].safe)
          => /\ InList(u, active_uics) => InList(u, active_uics')
             /\ uic_ref_map[u] # NoRef => uic_ref_map'[u] # NoRef
             /\ subscription_start_times[u] # NoTime
                   => subscription_start_times'[u] # NoTime]_vars

\* C2, witness: a prune has gone through its list and dropped a UIC, and a UIC
\* of the safe list that is older than the age limit is still enrolled.
C2_Witness ==
    /\ wk["w1"].op = "prune" /\ wk["w1"].pc = "prune_loop"
    /\ wk["w1"].todo = {}
    /\ \E v \in wk["w1"].to_remove : ~InList(v, active_uics)
    /\ \E u \in wk["w1"].safe :
          /\ InList(u, active_uics)
          /\ uic_ref_map[u] # NoRef
          /\ subscription_start_times[u] # NoTime
          /\ now - subscription_start_times[u] > PruneAge

\* C6: when no call is in progress on an open stream, a UIC is in active_uics
\* exactly when it has a reference id in the reference map, and it is in the
\* list once.
C6_ActiveIffLedger ==
    (wk["w1"].pc = "idle" /\ conn.pc = "connected")
    => \A u \in UICs :
          /\ InList(u, active_uics) <=> uic_ref_map[u] # NoRef
          /\ Count(u, active_uics) <= 1

\* C7: once subscribe_to_ticker(u) was called twice for a UIC that was not
\* enrolled, one after the other or on two threads at once, and both calls have
\* returned, u is in the active list once, has a reference id, and one POST
\* was sent for it.
C7_AddTwice ==
    \A u \in UICs :
        (hist.calls[u] = AddCalls /\ \A w \in Workers : wk[w].pc = "idle")
        => /\ Count(u, active_uics) = 1
           /\ uic_ref_map[u] # NoRef
           /\ hist.posts[u] = 1

\* C8: when unsubscribe_from_ticker(u) of an enrolled u is followed by
\* unsubscribe_from_ticker(u), one DELETE is sent in all and the second call
\* leaves the ledger as it found it.
C8_RemoveTwice ==
    (/\ wk["w1"].pc = "idle"
     /\ hist.prev.op = "remove" /\ hist.prev.enrolled
     /\ hist.last.op = "remove" /\ hist.last.uic = hist.prev.uic)
    => /\ hist.prev.dels + hist.last.dels = 1
       /\ ledger = hist.before

\* the UICs prune_stream(safe) is to drop, from the ledger before the call
Expired(before, safe, t) ==
    {u \in UICs : /\ before[3][u] # NoTime
                  /\ t - before[3][u] > PruneAge
                  /\ u \notin safe}

Without(before, gone) ==
    <<SelectSeq(before[1], LAMBDA u : u \notin gone),
      [u \in UICs |-> IF u \in gone THEN NoRef ELSE before[2][u]],
      [u \in UICs |-> IF u \in gone THEN NoTime ELSE before[3][u]],
      before[4] \ gone>>

\* C9: when prune_stream(safe) has returned, the ledger is the ledger before
\* the call without the UICs older than the age limit that are not in safe,
\* whether the DELETEs succeeded or not.
C9_PruneDropsExpired ==
    (wk["w1"].pc = "idle" /\ hist.last.op = "prune")
    => ledger = Without(hist.before,
                        Expired(hist.before, hist.last.safe, hist.at))

\* C10: when the stream is open again after a disconnect and the batch POST
\* has returned 201, the context id is none of those taken before, and every
\* UIC that was active at the disconnect has a reference id that was not in
\* use at the disconnect.
C10_FreshAfterReconnect ==
    (hist.closed /\ hist.resub /\ conn.pc = "connected")
    => /\ context_id \notin hist.ctxs
       /\ \A u \in hist.active_before :
             /\ uic_ref_map[u] # NoRef
             /\ uic_ref_map[u] \notin hist.refs_before

\* C11: when the stream is open again after a disconnect, every reference id
\* of the ledger was confirmed under the context id of the open session, also
\* when the batch POST of the reconnect failed.
C11_LedgerOfCurrentContext ==
    (hist.closed /\ conn.pc = "connected")
    => \A u \in UICs :
          uic_ref_map[u] # NoRef => hist.ref_ctx[u] = context_id

\* C12: no POST carries a reference id that an earlier POST carried, and no
\* two UICs of the ledger have the same reference id.
C12_RefIdsUnique ==
    /\ ~hist.reposted
    /\ \A u, v \in UICs :
          (u # v /\ uic_ref_map[u] # NoRef) => uic_ref_map[u] # uic_ref_map[v]

(***************************************************************************)
(* Claims about the strategy, checked under SpecStrategy.                  *)
(***************************************************************************)
\* the net profit of the specification, section 4.F, with the slippage
\* buffer, times 20000
RefNet(entry, exit, qty, commission) ==
    18000 * (exit - entry) * qty
    - 20000 * commission
    - 90 * (entry + exit) * qty
    - 9 * exit * qty

\* C1: a call update(u, p) on a held position returns SELL and removes the
\* position exactly when p, with the peak raised to p first if p is above it,
\* is at or below peak * (1 - stop_loss_pct) and the profit guard with the
\* slippage buffer gives a net above 0; in every other case the position stays
\* and the call does not return SELL.
C1_SellIffStopAndGuard ==
    [][\A u \in UICs :
          (positions[u] # NoPos /\ call'.tick # call.tick /\ call'.uic = u)
          => LET p == call'.price
                 peak == IF p > positions[u].max_price
                         THEN p ELSE positions[u].max_price
                 hit == 100 * p <= 99 * peak
                 net == RefNet(positions[u].entry_price, p,
                               positions[u].quantity, call'.commission)
             IN  IF hit /\ net > 0
                 THEN call'.signal = "SELL" /\ positions'[u] = NoPos
                 ELSE call'.signal # "SELL" /\ positions'[u] # NoPos]_vars

\* the net profit as the specification states it, times 20000: gross * fx
\* - commission - fx_cost - slippage, fx 0.90 between the two currencies
RefAudit(c) ==
    LET fx == IF c.instrument_currency = c.account_currency THEN 10 ELSE 9
        gross == (c.exit_price - c.entry_price) * c.quantity
        fx_cost == IF c.instrument_currency # c.account_currency
                   THEN 10 * (c.entry_price * c.quantity
                              + c.exit_price * c.quantity) * fx
                   ELSE 0
        slippage == IF c.include_slippage
                    THEN c.exit_price * c.quantity * fx
                    ELSE 0
    IN  2000 * gross * fx - commission_of(c) - fx_cost - slippage

\* C17: calculate_net_profit is gross * fx - commission - fx_cost - slippage
\* with fx_cost = (entry*qty + exit*qty) * fx * 0.005 when the currencies
\* differ and slippage = exit*qty*fx*0.0005 when asked for; with the mock
\* commission, a USD instrument on a EUR account bought at 100 and sold at
\* 100.5 (100 shares) nets below 0, and in one currency with slippage 100 ->
\* 100.04 nets below 0 and 100 -> 102 above 0.
C17_NetProfitFormula ==
    hist.done
    => LET c == hist.args
           same == c.instrument_currency = c.account_currency
           hundred == c.mocked /\ c.entry_price = 5000 /\ c.quantity = 100
       IN  /\ hist.net = RefAudit(c)
           /\ (hundred /\ ~same /\ c.exit_price = 5025) => hist.net < 0
           /\ (hundred /\ same /\ c.include_slippage /\ c.exit_price = 5002)
                 => hist.net < 0
           /\ (hundred /\ same /\ c.include_slippage /\ c.exit_price = 5100)
                 => hist.net > 0

\* C17, witness: the audit of 100 -> 100.5, 100 shares, USD on a EUR
\* account, has answered -55.25
C17_Witness ==
    /\ hist.done /\ hist.args.mocked /\ ~hist.args.include_slippage
    /\ hist.args.account_currency = "EUR" /\ hist.args.exit_price = 5025
    /\ hist.args.quantity = 100
    /\ hist.net = -55250000

\* C18: a held position with entry 100 and 10 shares whose trailing stop is
\* hit at 100.5 has a net profit above 0 when account and instrument are both
\* in USD (no FX friction), so the guard passes and update returns SELL.
C18_ThinGainSells ==
    LET peak == IF call.price > hist.held.max_price
                THEN call.price ELSE hist.held.max_price
    IN  (/\ call.uic = 10 /\ call.price = 201
         /\ hist.held.entry_price = 200 /\ hist.held.quantity = 10
         /\ 100 * call.price <= 99 * peak)
        => call.signal = "SELL"

\* place_order leaves its second step: the limiter had let it pass
PlacePasses ==
    cl["executor"].pc = "granted" /\ cl'["executor"].pc # "granted"

\* the step records exactly one call: the calls of the window, then now
RecordsOne ==
    /\ calls' # <<>>
    /\ calls'[Len(calls')] = now
    /\ Len(calls') =
          1 + Cardinality({i \in 1..Len(calls) : ~(now - calls[i] > Window)})

\* C19: in dry-run mode no sequence of place, cancel-all, close-all and
\* kill_switch calls sends an order POST or an order-cancel DELETE, and each
\* place call that passes the limiter logs the payload, records exactly one
\* limiter call and returns true.
C19_DryRunPlaceAlwaysTrue ==
    [][hist.dry_run
          => /\ ~hist'.posted /\ ~hist'.deleted
             /\ PlacePasses
                   => /\ hist'.logged /\ hist'.result = "true"
                      /\ RecordsOne]_vars

\* C19, amended: in dry-run mode no order POST and no order-cancel DELETE is
\* ever sent, and each place call that passes the limiter, gets an account
\* key and, for a Limit order, has a price, logs the payload, records exactly
\* one limiter call and returns true; without the key or the price it
\* returns false and logs and records nothing.
C19_DryRunSendsNothing ==
    [][hist.dry_run
          => /\ ~hist'.posted /\ ~hist'.deleted
             /\ PlacePasses
                   => IF hist'.account_key /\ hist'.payload_ok
                      THEN /\ hist'.logged /\ hist'.result = "true"
                           /\ RecordsOne
                      ELSE /\ ~hist'.logged /\ hist'.result = "false"
                           /\ calls' = calls]_vars

\* C19, witness: in a dry run, after the window was full and emptied again,
\* a Sell has been logged, recorded and answered true, and nothing was sent.
C19_Witness ==
    /\ hist.dry_run /\ hist.action = "Sell"
    /\ hist.logged /\ hist.result = "true"
    /\ calls = <<now>> /\ now > Window
    /\ ~hist.posted /\ ~hist.deleted

\* C20: place asks the limiter with priority high exactly when the side is
\* Sell and with normal otherwise; when the limiter denies, place returns
\* false, no request goes to the broker, no limiter call is recorded and the
\* cooldown stays as it was.
C20_DeniedPlaceLeavesNoTrace ==
    [][/\ (cl["executor"].pc = "idle" /\ cl'["executor"].pc # "idle")
          => /\ cl'["executor"].priority
                   = (IF hist'.action = "Sell" THEN "high" ELSE "normal")
             /\ cl'["executor"].pc = "denied"
                   => /\ \A i \in 1..Len(calls') :
                            \E j \in 1..Len(calls) : calls'[i] = calls[j]
                      /\ Len(calls') <= Len(calls)
                      /\ cooldown_until' = cooldown_until
                      /\ hist'.posted = hist.posted
       /\ cl["executor"].pc = "denied"
          => \/ /\ cl'["executor"].pc = "denied"
                /\ hist'.posted = hist.posted
             \/ /\ cl'["executor"].pc = "idle"
                /\ hist'.result = "false"
                /\ calls' = calls
                /\ cooldown_until' = cooldown_until
                /\ hist'.posted = hist.posted]_vars

\* C20, witness: a Buy was denied during a cooldown and place has returned
\* false.
C20_Witness ==
    /\ hist.denied /\ hist.action = "Buy" /\ hist.result = "false"
    /\ cl["executor"] = [pc |-> "idle", priority |-> "normal"]
    /\ now < cooldown_until

\* C14: while flat, update returns BUY exactly when the history has at least
\* long_period prices and the short EMA is above the long one; in
\* particular there is no BUY while every price fed so far is the same.
C14_NoBuyOnFlatPrices ==
    hist.signal = "BUY"
    => \E i, j \in 1..Len(hist.history) : hist.history[i] # hist.history[j]

\* entry price, quantity and peak of a position
Triple(pos) == <<pos.entry_price, pos.quantity, pos.max_price>>

\* C13: every open position has a peak that is at least its entry price and
\* at least every price passed to update for its UIC since it was entered.
C13_PeakDominates ==
    \A u \in UICs :
        positions[u] # NoPos
        => /\ positions[u].max_price >= positions[u].entry_price
           /\ positions[u].max_price >= hist.fed[u]

\* C15: with the State Store answering every command, after a completed
\* update the key of a UIC exists exactly when the UIC has an open position,
\* and holds that position's entry price, quantity and peak.
C15_StoreMirrorsPositions ==
    (redis_client /\ ~hist.failed /\ call # NoCall)
    => \A u \in UICs :
          /\ redis_store[u] # NoPos <=> positions[u] # NoPos
          /\ Triple(redis_store[u]) = Triple(positions[u])
          /\ positions[u] # NoPos => redis_store[u].uic = u

\* C15, witness: a position entered at 100 whose peak was raised to 198 is
\* in memory and under its key, after an update that changed nothing.
C15_Witness ==
    /\ redis_client /\ ~hist.failed
    /\ call.uic = 10 /\ call.price = 100 /\ call.signal = "None"
    /\ Triple(positions[10]) = <<100, 10, 198>>
    /\ Triple(redis_store[10]) = <<100, 10, 198>>

\* C16: when every position was persisted, a new instance started against
\* the same store has the positions of the old one, each with the same entry
\* price, quantity and peak, and no other.
C16_ReloadIsIdentity ==
    [][(hist'.loads # hist.loads /\ ~hist.failed)
          => \A u \in UICs : Triple(positions'[u]) = Triple(positions[u])]_vars

\* C16, witness: a new instance has rehydrated the position entered at 100
\* with its peak of 198.
C16_Witness ==
    /\ hist.loads = 1 /\ ~hist.failed /\ call = NoCall
    /\ Triple(positions[10]) = <<100, 10, 198>>

\* C1, witness: a position entered at 100 whose peak was 200 has just been
\* sold on a tick of 198, the stop price itself.
C1_Witness ==
    /\ call.signal = "SELL" /\ call.uic = 10 /\ call.price = 198
    /\ positions[10] = NoPos
    /\ Len(price_history[10]) >= 2
    /\ price_history[10][Len(price_history[10]) - 1] = 200

(***************************************************************************)
(* Claims about the scan and the 429 handling, checked under SpecScan.     *)
(***************************************************************************)
\* the step is the handling of a 429 response by the named caller
Got429(who) == hist'.last.who = who /\ hist'.last.outcome = "429"

C23_HotListEnrolled ==
    hist.done /\ hist.clean
       => \A k \in 1..Len(hist.hot) : InList(hist.hot[k], active_uics)

\* C22: when a live kill_switch run whose listing of the positions
\* succeeded is over, an order POST has been sent for every listed position
\* with a nonzero amount.
C22_EveryPositionPosted ==
    ks.pc = "done" /\ hist.listed # <<>>
       => \A k \in 1..Len(hist.listed) : hist.listed[k] # 0 => k \in hist.posted

\* C24: from a subscribe POST answered with 403 until prune_stream is next
\* entered, no subscribe POST is sent.
C24_NoPostWhileLimited ==
    [][hist.limited => ~(wk["w1"].pc = "add_suffix" /\ wk'["w1"].pc = "add_post")]_vars

(***************************************************************************)
(* Claims about the token source, checked under SpecAuth.                  *)
(***************************************************************************)
\* the last call sent a refresh request that was answered as named
Refreshed(outcome) == hist.called /\ hist.requested /\ hist.outcome = outcome

C25_FreshTickProcessed ==
    [][hist'.step = "stream" =>
          \A u \in due_uics :
             /\ orch'.last_processed_time[u] = quotes[u].Updated
             /\ call' # NoCall /\ call'.price = quotes[call'.uic].LastPrice]_vars

\* C26: when a round of the scanner task or of the janitor task of an
\* orchestrator with a State Store is over, the key of the universe view
\* holds the watched and the owned UICs as they then are.
C26_ViewRepublished ==
    [][hist'.step \in {"scanner", "janitor"} /\ orch.redis => orch'.universe_key = View']_vars

\* C27: when run() of an orchestrator with a State Store has returned,
\* shutdown() has set running false, persisted the positions, closed the
\* State Store connection and closed the WebSocket, in this order, before the
\* tasks were cancelled.
C27_OrderlyShutdown ==
    orch.pc = "returned" /\ orch.redis
       => orch.reached = <<"running", "persist", "redis", "ws", "cancel">>

\* C29: after a binary message has been handled, the quote map has a quote
\* for every UIC of every frame of the message that carries the reference id
\* of the manager.
C29_EveryFrameProcessed ==
    \A k \in 1..Len(hist.frames) :
       hist.frames[k].ref = WireBase
          => \A j \in 1..Len(hist.frames[k].payload) :
                hist.frames[k].payload[j] \in live_market_state

\* C30: every read and every write of the subscription ledger and of the
\* quote map that a step performs is inside a block that holds the mutex of
\* the streaming manager.
C30_AccessesUnderLock ==
    [][\A a \in accesses(hist'.step) : a.locked]_vars

(***************************************************************************)
(* Claims about the frame of the limiter, checked under SpecLimiter.       *)
(***************************************************************************)
\* the step in which the response of caller c's request is handled
Responded(c, from) == cl[c].pc = from /\ cl'[c].pc = "idle"

\* C31: cooldown_until is changed only by trigger_cooldown: a step that
\* changes it handles the response of the scanner's or of the executor's
\* request and sets it to the time of the step plus the seconds of
\* Retry-After; every admission, with any priority and also one granted to
\* a high-priority caller during the cooldown, and every other record of a
\* call leave it as it was.
C31_CooldownOnlyByTrigger ==
    [][cooldown_until' # cooldown_until =>
          /\ Responded("scanner", "granted") \/ Responded("executor", "posting")
          /\ \E header \in RetryHeaders :
                cooldown_until' = trigger_cooldown(now, retry_after(header))]_vars

\* a high-priority admit was granted while the cooldown is active
C31_Witness ==
    /\ cl["executor"].pc = "granted"
    /\ cl["executor"].priority = "high"
    /\ now < cooldown_until
    /\ calls # <<>>

(***************************************************************************)
(* Claims about the order of the signals, checked under SpecSignals: the   *)
(* strategy of SpecStrategy with the signals of the running process on     *)
(* record, per UIC the last one and how many there were (up to MaxSignals). *)
(***************************************************************************)
MaxSignals == 3

SignalHist == [last |-> [u \in UICs |-> "None"], n |-> [u \in UICs |-> 0]]

\* the record after update returned signal for uic
Signalled(uic, signal) ==
    IF signal = "None"
    THEN hist
    ELSE [last |-> [hist.last EXCEPT ![uic] = signal],
          n |-> [hist.n EXCEPT ![uic] = IF @ < MaxSignals THEN @ + 1 ELSE @]]

SignalRest == UNCHANGED <<now, limVars, mdCore, orchVars>>

SignalsNext ==
    \/ \E uic \in Traded, current_price \in Prices :
       \E commission \in CommissionsAsked(uic, current_price),
          ok \in RedisOutcomes :
          /\ update(uic, current_price, 10, commission, ok)
          /\ hist' = Signalled(uic, call'.signal)
          /\ SignalRest
    \/ \E loaded \in RedisOutcomes :
          restart(loaded) /\ hist' = SignalHist /\ SignalRest

held == {u \in UICs : positions[u] # NoPos}

\* task_janitor 117-120: prune_stream(safe_uics = the open positions) is
\* handed to the worker pool
janitor_prune(w) == prune_stream(w, held)

JanitorNext ==
    \/ start_stream /\ MdRest
    \/ connection_manager_loop /\ MdRest
    \/ _on_open /\ MdRest
    \/ \E outcome \in RestOutcomes : on_open_response(outcome, {}) /\ MdRest
    \/ \E uic \in Traded, current_price \in QuotePrices :
          update(uic, current_price, 10, 0, TRUE) /\ StratRest
    \/ conn.pc # "off" /\ janitor_prune("w1") /\ MdRest
    \/ prune_unsubscribe("w1") /\ MdRest
    \/ \E outcome \in RestOutcomes : unsubscribe_response("w1", outcome) /\ MdRest
    \/ prune_return("w1") /\ MdRest
    \/ MdTick /\ MdRest

ShutdownHist == [after |-> FALSE]

\* the record after a disconnect
Disconnected == [after |-> hist.after \/ ~orch.running]

ShutdownRest == UNCHANGED <<limVars, stratVars, scan, auth, ks, callers, quotes>>

ShutdownNext ==
    \/ run /\ UNCHANGED hist /\ ShutdownRest
    \/ connection_manager_loop /\ UNCHANGED <<hist, orch>> /\ ShutdownRest
    \/ ws_connect_failed /\ hist' = Disconnected /\ UNCHANGED orch /\ ShutdownRest
    \/ _on_open /\ UNCHANGED <<hist, orch>> /\ ShutdownRest
    \/ \E outcome \in RestOutcomes :
          on_open_response(outcome, {}) /\ UNCHANGED <<hist, orch>> /\ ShutdownRest
    \/ ws_closed /\ hist' = Disconnected /\ UNCHANGED orch /\ ShutdownRest
    \/ shutdown /\ UNCHANGED <<now, hist>> /\ ShutdownRest
    \/ run_return /\ UNCHANGED <<now, hist>> /\ ShutdownRest
    \/ MdTick /\ UNCHANGED <<hist, orch>> /\ ShutdownRest

\* C34: after a disconnect that follows shutdown, the connection manager
\* loop opens no new WebSocket connection and sends no re-enrol request.
C34_NoReconnectAfterShutdown ==
    [][hist.after => /\ ~(conn.pc = "backoff" /\ conn'.pc = "handshake")
                     /\ ~(conn.pc = "handshake" /\ conn'.pc = "open_post")]_vars

(***************************************************************************)
(* Claims about the frames of UICs enrolled one by one, checked under      *)
(* SpecFrames: the connection thread, one client thread that calls         *)
(* subscribe_to_ticker, and the broker's frames with the last one on       *)
(* record.                                                                 *)
(***************************************************************************)
\* _on_message 288-312 and _process_data_list 314-330: a frame tagged ref
\* with the quote of UIC u; the quote is stored with the time of arrival
\* when the tag is self.ref_id, else the frame is dropped
on_quote_frame(ref, u, price) ==
    /\ conn.pc = "connected"
    /\ IF ref = BaseRef
       THEN /\ live_market_state' = _process_data_list({u})
            /\ quotes' = [quotes EXCEPT ![u] = [LastPrice |-> price,
                                                Updated |-> now]]
       ELSE UNCHANGED <<live_market_state, quotes>>
    /\ UNCHANGED <<now, context_id, active_uics, uic_ref_map,
                   subscription_start_times, conn, wk>>

FramesHist == [ref |-> NoRef, uic |-> 0, price |-> 0, tick |-> 0]

FramesRest == UNCHANGED <<limVars, stratVars, scan, orch, auth, ks, callers>>

FramesNext ==
    \/ start_stream /\ UNCHANGED <<hist, quotes>> /\ FramesRest
    \/ connection_manager_loop /\ UNCHANGED <<hist, quotes>> /\ FramesRest
    \/ _on_open /\ UNCHANGED <<hist, quotes>> /\ FramesRest
    \/ \E outcome \in RestOutcomes :
          on_open_response(outcome, {}) /\ UNCHANGED <<hist, quotes>> /\ FramesRest
    \/ \E u \in UICs :
          /\ conn.pc = "connected"
          /\ subscribe_to_ticker("w1", u)
          /\ UNCHANGED <<hist, quotes>> /\ FramesRest
    \/ subscribe_post("w1") /\ UNCHANGED <<hist, quotes>> /\ FramesRest
    \/ \E outcome \in RestOutcomes :
          subscribe_response("w1", outcome, {}) /\ UNCHANGED <<hist, quotes>> /\ FramesRest
    \/ \E u \in UICs, price \in QuotePrices :
          /\ uic_ref_map[u] # NoRef
          /\ on_quote_frame(uic_ref_map[u], u, price)
          /\ hist' = [ref |-> uic_ref_map[u], uic |-> u, price |-> price,
                      tick |-> 1 - hist.tick]
          /\ FramesRest
    \/ MdTick /\ UNCHANGED <<hist, quotes>> /\ FramesRest

\* C35: a frame tagged with the reference id of a ledger entry leaves the
\* quote of the UIC in its payload in the quote map, with the price of the
\* frame and the time of its arrival.
C35_LedgerFramesUpdateQuotes ==
    [][hist'.tick # hist.tick =>
          quotes'[hist'.uic] = [LastPrice |-> hist'.price, Updated |-> now]]_vars

(***************************************************************************)
(* Claims about signals and orders in live mode, checked under SpecTrade:  *)
(* the stream processor's strategy.update (main.py 160) followed, when it  *)
(* returned a signal, by place_order (main.py 171-174) with dry_run off,   *)
(* while the scanner uses the same limiter on its worker thread; on record *)
(* are the signal, the position map before update was called, and what     *)
(* place_order returned.                                                   *)
(***************************************************************************)
TradeHist == [pc |-> "idle", uic |-> 0, signal |-> "None",
              before |-> NoPositions, result |-> "none"]

\* main.py 167: the side of the order for a signal
action_of(signal) == IF signal = "BUY" THEN "Buy" ELSE "Sell"

TradeNext ==
    \/ \E uic \in Traded, current_price \in QuotePrices :
       \E commission \in CommissionsAsked(uic, current_price) :
          /\ hist.pc = "idle"
          /\ update(uic, current_price, 10, commission, TRUE)
          /\ hist' = [pc |-> IF call'.signal = "None" THEN "idle" ELSE "signal",
                      uic |-> uic, signal |-> call'.signal,
                      before |-> positions, result |-> "none"]
          /\ SignalRest
    \/ /\ hist.pc = "signal"
       /\ ExecAdmit(action_of(hist.signal))
       /\ hist' = [hist EXCEPT !.pc = "placing"]
       /\ ExecRest
    \/ /\ hist.pc = "placing"
       /\ ExecDenied
       /\ hist' = [hist EXCEPT !.pc = "idle", !.result = "false"]
       /\ ExecRest
    \/ \E account_key \in BOOLEAN :
          /\ hist.pc = "placing"
          /\ ExecPrepare(account_key, TRUE, FALSE)
          /\ hist' = IF account_key
                     THEN hist
                     ELSE [hist EXCEPT !.pc = "idle", !.result = "false"]
          /\ ExecRest
    \/ \E outcome \in PostOutcomes, header \in RetryHeaders :
          /\ hist.pc = "placing"
          /\ ExecResponse(outcome, header)
          /\ hist' = [hist EXCEPT
                 !.pc = "idle",
                 !.result = IF outcome = "200" THEN "true" ELSE "false"]
          /\ ExecRest
    \/ ScanAdmit /\ UNCHANGED hist /\ ExecRest
    \/ ScanSkip /\ UNCHANGED hist /\ ExecRest
    \/ \E outcome \in PostOutcomes, header \in RetryHeaders :
          ScanResponse(outcome, header) /\ UNCHANGED hist /\ ExecRest
    \/ LimTick /\ UNCHANGED hist /\ ExecRest

C37_HeldAreActive ==
    orch.pc # "init" => \A u \in held : InList(u, active_uics)

(***************************************************************************)
(* Claims about what remove leaves subscribed, checked under SpecRemove:   *)
(* the connection thread and one client thread that calls                  *)
(* unsubscribe_from_ticker, with the broker's side on record: the          *)
(* reference ids of the subscriptions that are live under the current      *)
(* context id.  A subscription is live from its 201 until its DELETE is    *)
(* answered with success; a new context id starts without subscriptions.   *)
(***************************************************************************)
RemoveHist == [live |-> {}]

\* UIC u is covered by a live subscription of the broker, by its reference id
\* in the ledger
covered(ref_map, u, live) == ref_map[u] # NoRef /\ ref_map[u] \in live

RemoveRest == UNCHANGED <<limVars, stratVars, orchVars>>

RemoveNext ==
    \/ start_stream /\ UNCHANGED hist /\ RemoveRest
    \/ connection_manager_loop /\ hist' = [live |-> {}] /\ RemoveRest
    \/ _on_open /\ UNCHANGED hist /\ RemoveRest
    \/ \E outcome \in RestOutcomes :
          /\ on_open_response(outcome, {})
          /\ hist' = [live |-> IF outcome = "ok"
                               THEN hist.live \cup {BaseRef}
                               ELSE hist.live]
          /\ RemoveRest
    \/ ws_closed /\ UNCHANGED hist /\ RemoveRest
    \/ \E u \in UICs :
          /\ conn.pc # "off"
          /\ unsubscribe_from_ticker("w1", u)
          /\ UNCHANGED hist /\ RemoveRest
    \/ \E outcome \in RestOutcomes :
          /\ unsubscribe_response("w1", outcome)
          /\ hist' = [live |-> IF delete_succeeded(outcome)
                               THEN hist.live \ {wk["w1"].ref}
                               ELSE hist.live]
          /\ RemoveRest
    \/ MdTick /\ UNCHANGED hist /\ RemoveRest

\* C38: when remove(u) returns, every other UIC of the active list that was
\* covered by a live subscription when the DELETE was sent is still covered.
C38_RemoveEndsOnlyOne ==
    [][(wk["w1"].pc = "rem_delete" /\ wk'["w1"].pc = "idle") =>
          \A v \in UICs :
             (/\ v # wk["w1"].uic
              /\ InList(v, active_uics')
              /\ covered(uic_ref_map, v, hist.live)) =>
                covered(uic_ref_map', v, hist'.live)]_vars

(***************************************************************************)
(* Claims about concurrent refreshes, checked under SpecRefresh: three     *)
(* threads call ensure_valid_token on the one SaxoAuthManager, which has   *)
(* no lock.  A call is two steps, up to the POST and from its answer on.   *)
(* The broker's side is on record: the refresh credential that is valid    *)
(* (each is good for one refresh and is replaced by the next number), and  *)
(* the credentials of the requests sent so far.                            *)
(***************************************************************************)
MaxRefresh == 3

RefreshHist == [valid |-> 1, sent |-> <<>>]

\* ensure_valid_token 165-172 and refresh_access_token 107-116, up to the
\* POST of _request_token 122: nothing happens with a valid token; without a
\* credential None is returned; else the request carries self.refresh_token
ensure_enter(th, read_ok) ==
    LET credential == reread(auth, read_ok) IN
    /\ callers[th].pc = "idle"
    /\ needs_refresh(auth, now)
    /\ auth' = [auth EXCEPT !.refresh_token = credential]
    /\ callers' = [callers EXCEPT ![th] =
                      IF credential = 0
                      THEN [pc |-> "idle", credential |-> 0]
                      ELSE [pc |-> "posting", credential |-> credential]]

\* _request_token 122-161: the answer of the token endpoint is handled
ensure_response(th, outcome, token_data, save_ok) ==
    /\ callers[th].pc = "posting"
    /\ auth' = _request_token(auth, now, outcome, token_data, save_ok)
    /\ callers' = [callers EXCEPT ![th] = [pc |-> "idle", credential |-> 0]]

\* what the token endpoint answers to a request with the valid credential
Rotated(valid) ==
    [access_token : AccessTokens, refresh_token : {valid + 1}, expires_in : ExpiresIn]

RefreshRest == UNCHANGED <<limVars, mdCore, stratVars, scan, orch, ks, quotes>>

RefreshNext ==
    \/ \E th \in Threads, read_ok \in BOOLEAN :
          /\ Len(hist.sent) < MaxRefresh
          /\ ensure_enter(th, read_ok)
          /\ hist' = IF callers'[th].pc = "posting"
                     THEN [hist EXCEPT !.sent = Append(@, callers'[th].credential)]
                     ELSE hist
          /\ UNCHANGED now /\ RefreshRest
    \/ \E th \in Threads, save_ok \in BOOLEAN :
       \E token_data \in Rotated(hist.valid) :
          /\ callers[th].credential = hist.valid
          /\ ensure_response(th, "ok", token_data, save_ok)
          /\ hist' = [hist EXCEPT !.valid = @ + 1]
          /\ UNCHANGED now /\ RefreshRest
    \/ \E th \in Threads, outcome \in TokenOutcomes \ {"ok"} :
       \E token_data \in Rotated(hist.valid) :
          /\ ensure_response(th, outcome, token_data, TRUE)
          /\ UNCHANGED <<now, hist>> /\ RefreshRest
    \/ LimTick /\ UNCHANGED <<hist, auth, callers>> /\ RefreshRest

\* C39: no two refresh requests carry the same refresh credential, and when
\* no call is in progress the manager's refresh credential is the one the
\* broker issued last.
C39_OneRequestPerCredential ==
    /\ \A i, j \in 1..Len(hist.sent) : i # j => hist.sent[i] # hist.sent[j]
    /\ (\A th \in Threads : callers[th].pc = "idle") =>
          auth.refresh_token = hist.valid

(***************************************************************************)
(* Claims about the price of an exit, checked under SpecStrategy, where    *)
(* commissions are 0 or more and prices are positive.                      *)
(***************************************************************************)
\* C40: update returns SELL only at a price above the entry price of the
\* position it closes; a trailing stop hit at or below the entry price is
\* vetoed by the profit guard: no signal, the position stays open.
C40_NoSellAtOrBelowEntry ==
    [][\A u \in UICs :
          (/\ call'.tick # call.tick /\ call'.uic = u
           /\ positions[u] # NoPos
           /\ call'.price <= positions[u].entry_price) =>
                /\ call'.signal = "None"
                /\ positions'[u] # NoPos
                /\ positions'[u].entry_price = positions[u].entry_price]_vars

\* the trailing stop was hit at a price not above the entry price, and the
\* position is still open
C40_Witness ==
    /\ call.uic = 10
    /\ call.signal = "None"
    /\ positions[10] # NoPos
    /\ stop_hit(call.price, positions[10].max_price)
    /\ call.price <= positions[10].entry_price

Init ==
    /\ now = 0
    /\ LimInit
    /\ MdInit
    /\ OrchInit
    /\ hist = NoHist
    /\ StratStart(FALSE, NoPositions, FALSE)

SpecLimiter == Init /\ [][LimNext]_vars

SpecStream == Init /\ [][StreamNext]_vars

InitSeq ==
    /\ now = 0 /\ LimInit /\ MdInit /\ OrchInit /\ hist = SeqHist
    /\ StratStart(FALSE, NoPositions, FALSE)

SpecSeq == InitSeq /\ [][SeqNext]_vars

InitAdd ==
    /\ now = 0 /\ LimInit /\ MdInit /\ OrchInit /\ hist = AddHist
    /\ StratStart(FALSE, NoPositions, FALSE)

SpecAdd == InitAdd /\ [][AddNext]_vars

InitReconnect ==
    /\ now = 0 /\ LimInit /\ MdInit /\ OrchInit /\ hist = ConnHist
    /\ StratStart(FALSE, NoPositions, FALSE)

SpecReconnect == InitReconnect /\ [][ReconnectNext]_vars

InitStrategy ==
    /\ now = 0 /\ LimInit /\ MdInit /\ OrchInit /\ hist = NoHist
    /\ \E client \in BOOLEAN, stored \in Stored, loaded \in BOOLEAN :
          StratStart(client, stored, loaded)

SpecStrategy == InitStrategy /\ [][StrategyNext]_vars

InitAudit ==
    /\ now = 0 /\ LimInit /\ MdInit /\ OrchInit
    /\ StratStart(FALSE, NoPositions, FALSE)
    /\ \E c \in AuditCases : hist = [args |-> c, net |-> 0, done |-> FALSE]

SpecAudit == InitAudit /\ [][AuditNext]_vars

InitExec ==
    /\ now = 0 /\ LimInit /\ MdInit /\ OrchInit
    /\ StratStart(FALSE, NoPositions, FALSE)
    /\ \E dry_run \in BOOLEAN : hist = ExecHist(dry_run)

SpecExec == InitExec /\ [][ExecNext]_vars

InitEntry ==
    /\ now = 0 /\ LimInit /\ MdInit /\ OrchInit
    /\ StratStart(FALSE, NoPositions, FALSE)
    /\ \E series \in EntrySeries :
          hist = [series |-> series, fed |-> 0, history |-> <<>>,
                  signal |-> "None", position |-> NoPos]

SpecEntry == InitEntry /\ [][EntryNext]_vars

InitGuard ==
    /\ now = 0 /\ LimInit /\ MdInit /\ OrchInit
    /\ StratStart(FALSE, NoPositions, FALSE)
    /\ hist = [held |-> NoPos]

SpecGuard == InitGuard /\ [][GuardNext]_vars

InitPersist ==
    /\ now = 0 /\ LimInit /\ MdInit /\ OrchInit
    /\ \E client \in BOOLEAN, stored \in Stored, loaded \in BOOLEAN :
          /\ StratStart(client, stored, loaded)
          /\ hist = PersistHist(client, loaded)

SpecPersist == InitPersist /\ [][PersistNext]_vars

InitScan ==
    /\ now = 0 /\ LimInit /\ MdInit /\ OrchInit
    /\ hist = ScanHist
    /\ StratStart(FALSE, NoPositions, FALSE)

SpecScan == InitScan /\ [][ScanNext]_vars

InitKill ==
    /\ now = 0 /\ LimInit /\ MdInit /\ OrchInit
    /\ hist = KillHist
    /\ StratStart(FALSE, NoPositions, FALSE)

SpecKill == InitKill /\ [][KillNext]_vars

InitBackoff ==
    /\ now = 0 /\ LimInit /\ MdInit /\ OrchInit
    /\ hist = BackoffHist
    /\ StratStart(FALSE, NoPositions, FALSE)

SpecBackoff == InitBackoff /\ [][BackoffNext]_vars

InitAuth ==
    /\ now = 0 /\ LimInit /\ MdInit
    /\ scan = NoScan /\ orch = NoOrch /\ ks = NoKill /\ quotes = NoQuotes
    /\ callers = NoCallers
    /\ \E client \in BOOLEAN, store \in {0} \cup Credentials, env \in {0} \cup Credentials :
          auth = AuthStart(client, store, env)
    /\ hist = AuthHist
    /\ StratStart(FALSE, NoPositions, FALSE)

SpecAuth == InitAuth /\ [][AuthNext]_vars

InitOrch ==
    /\ now = 0 /\ LimInit /\ MdInit
    /\ scan = NoScan /\ ks = NoKill /\ quotes = NoQuotes
    /\ callers = NoCallers
    /\ \E client \in BOOLEAN :
          /\ orch = [NoOrch EXCEPT !.redis = client]
          /\ auth = AuthStart(client, 0, 0)
    /\ hist = OrchHist
    /\ StratStart(FALSE, NoPositions, FALSE)

SpecOrch == InitOrch /\ [][OrchNext]_vars

InitDecode ==
    /\ now = 0 /\ LimInit /\ MdInit /\ OrchInit
    /\ hist = DecodeHist
    /\ StratStart(FALSE, NoPositions, FALSE)

SpecDecode == InitDecode /\ [][DecodeNext]_vars

InitSignals ==
    /\ now = 0 /\ LimInit /\ MdInit /\ OrchInit
    /\ hist = SignalHist
    /\ \E client \in BOOLEAN, stored \in Stored, loaded \in BOOLEAN :
          StratStart(client, stored, loaded)

SpecSignals == InitSignals /\ [][SignalsNext]_vars

InitJanitor ==
    /\ now = 0 /\ LimInit /\ MdInit /\ OrchInit /\ hist = NoHist
    /\ StratStart(FALSE, NoPositions, FALSE)

SpecJanitor == InitJanitor /\ [][JanitorNext]_vars

InitShutdown ==
    /\ now = 0 /\ LimInit /\ MdInit /\ OrchInit /\ hist = ShutdownHist
    /\ StratStart(FALSE, NoPositions, FALSE)

SpecShutdown == InitShutdown /\ [][ShutdownNext]_vars

InitFrames ==
    /\ now = 0 /\ LimInit /\ MdInit /\ OrchInit /\ hist = FramesHist
    /\ StratStart(FALSE, NoPositions, FALSE)

SpecFrames == InitFrames /\ [][FramesNext]_vars

InitTrade ==
    /\ now = 0 /\ LimInit /\ MdInit /\ OrchInit /\ hist = TradeHist
    /\ StratStart(FALSE, NoPositions, FALSE)

SpecTrade == InitTrade /\ [][TradeNext]_vars

InitRehydrate ==
    /\ now = 0 /\ LimInit /\ MdInit
    /\ scan = NoScan /\ ks = NoKill /\ quotes = NoQuotes
    /\ callers = NoCallers
    /\ orch = [NoOrch EXCEPT !.redis = TRUE]
    /\ auth = AuthStart(TRUE, 0, 0)
    /\ hist = OrchHist
    /\ \E stored \in Stored, loaded \in BOOLEAN : StratStart(TRUE, stored, loaded)

SpecRehydrate == InitRehydrate /\ [][OrchNext]_vars

InitRemove ==
    /\ now = 0 /\ LimInit /\ MdInit /\ OrchInit /\ hist = RemoveHist
    /\ StratStart(FALSE, NoPositions, FALSE)

SpecRemove == InitRemove /\ [][RemoveNext]_vars

InitRefresh ==
    /\ now = 0 /\ LimInit /\ MdInit /\ hist = RefreshHist
    /\ scan = NoScan /\ orch = NoOrch /\ ks = NoKill /\ quotes = NoQuotes
    /\ callers = NoCallers
    /\ \E client \in BOOLEAN :
          auth = [AuthStart(client, 1, 1) EXCEPT !.access_token = 1,
                                                 !.token_expiry = 0]
    /\ StratStart(FALSE, NoPositions, FALSE)

SpecRefresh == InitRefresh /\ [][RefreshNext]_vars

====
